---- MODULE Spec2Model ----
(***************************************************************************)
(* PIX payout lifecycle of the troco backend.                              *)
(*                                                                         *)
(* Two persistence backends exist in the repository and a deployment runs  *)
(* one of them:                                                            *)
(*   "mongo"    - Mongoose models (src/src/models/SubAccount.js,           *)
(*                src/src/models/PixTransaction.js) behind the web routes  *)
(*                /process, /status, /cancel, /retry, /subaccount and      *)
(*                /add-balance (src/unnamed/part_002, part_000);           *)
(*   "supabase" - Supabase models (src/unnamed/part_006, part_004,         *)
(*                part_003) behind the device route /process-troco         *)
(*                (src/src/config/database.js) and the user routes of      *)
(*                src/unnamed/part_001.                                    *)
(*                                                                         *)
(* Every request handler is an async function: the code between two        *)
(* awaits runs atomically, and other handlers interleave at every await.   *)
(* A handler slot holds the handler's position (pc) and its in-memory      *)
(* documents.  An action performs the awaited store or gateway operation   *)
(* and runs the handler up to its next await.                              *)
(*                                                                         *)
(* Money is counted in centavos (integers); JavaScript's binary floating   *)
(* point rounding is not modelled.                                         *)
(***************************************************************************)
EXTENDS Integers, Sequences, FiniteSets, TLC

(***************************************************************************)
(* Bounds of the model.                                                    *)
(***************************************************************************)
MaxTx == 2          \* transaction records that may be created
NumSlots == 2       \* request handlers in flight at the same time
MaxFaults == 2      \* injected failures (store write, lost gateway response)
MaxDay == 1         \* calendar days that may pass
MaxCredits == 1     \* add-balance requests
MaxSettings == 1    \* settings updates
MaxOps == 3         \* requests that get past their first read, and midnights
NumCallers == 2     \* concurrent callers of authenticate
MaxNow == 3         \* clock readings of the token specification
MaxAuthCalls == 3   \* calls of authenticate
MaxFnCalls == 2     \* requests to the serverless function
NumUsers == 2       \* users that may register
MaxDirOps == 4      \* registration and establishment requests

(***************************************************************************)
(* Program constants.                                                      *)
(***************************************************************************)
MaxRetries == 3         \* canRetry: retryCount < 3
SystemMaxPix == 9999    \* 99.99: schema max of maxPixAmount and of amount
MongoDailyDefault == 50000   \* dailyPixLimit default 500.00
SupaDailyDefault == 100000   \* daily_pix_limit default 1000

InitialBalance == 5000
Amounts == {1050, 4000}
CreditAmounts == {4000}
MaxPixChoices == {2000}
DailyLimitChoices == {3000}
ExpiresInChoices == {1, 2}   \* expires_in of a token response, in clock ticks
\* Keys are sequences of characters.
EmailSample == <<"a", "@", "b", ".", "c", "o", "m">>
Keys == {EmailSample, <<"n", "o", "t", "-", "a", "-", "k", "e", "y">>}

TxIds == 1..MaxTx
Slots == 1..NumSlots
Callers == 1..NumCallers
Users == 1..NumUsers
Backends == {"mongo", "supabase"}

VARIABLES
  backend,   \* which persistence backend this deployment runs
  sa,        \* the stored SubAccount row
  txs,       \* the stored PixTransaction rows, by id
  h,         \* the handler slots
  today,     \* the calendar day
  faults,    \* failures injected so far
  ncredits,  \* add-balance requests accepted so far
  nsettings, \* settings updates accepted so far
  credited,  \* ghost: total amount credited by successful add-balance writes
  debited,   \* ghost: per transaction, the successful debit writes made for it
  gw,        \* ghost: per transaction, the payout submissions the gateway accepted
  resp,      \* the response sent by the step just taken, NoResp otherwise
  efiSvc,    \* the EfiBankService instance: accessToken and tokenExpiry
  auth,      \* the callers of authenticate, the clock and the token requests sent
  fn,        \* the serverless process-pix function: configuration, request, bank calls
  dir,       \* users, their sub_accounts rows and establishments, and the handlers on them
  fnIn,      \* input of the pure-function specifications
  fnOut,     \* their output
  ops        \* handlers started so far

vars == <<backend, sa, txs, h, today, faults, ncredits, nsettings, credited,
          debited, gw, resp, efiSvc, auth, fn, dir, fnIn, fnOut, ops>>

(***************************************************************************)
(* Limit policy.                                                           *)
(***************************************************************************)
\* SubAccount.js canMakePix (Mongoose): inactive, per-PIX cap, balance, daily.
CanMakePix(doc, amount) ==
  IF ~doc.isActive THEN "ACCOUNT_INACTIVE"
  ELSE IF amount > doc.maxPix THEN "EXCEEDS_TX_LIMIT"
  ELSE IF amount > doc.balance THEN "INSUFFICIENT_BALANCE"
  ELSE IF doc.dailyUsed + amount > doc.dailyLimit THEN "EXCEEDS_DAILY_LIMIT"
  ELSE "OK"

\* SupaCanMakePix without its balance test
SupaCanMakePix_NoBalance(doc, amount) ==
  IF ~doc.isActive THEN "ACCOUNT_INACTIVE"
  ELSE IF amount > doc.maxPix THEN "EXCEEDS_TX_LIMIT"
  ELSE IF doc.dailyUsed + amount > doc.dailyLimit THEN "EXCEEDS_DAILY_LIMIT"
  ELSE "OK"

\* part_006 SubAccount.canMakePix (Supabase): inactive, cap, daily, balance.
SupaCanMakePix(doc, amount) ==
  IF ~doc.isActive THEN "ACCOUNT_INACTIVE"
  ELSE IF amount > doc.maxPix THEN "EXCEEDS_TX_LIMIT"
  ELSE IF doc.dailyUsed + amount > doc.dailyLimit THEN "EXCEEDS_DAILY_LIMIT"
  ELSE IF doc.balance < amount THEN "INSUFFICIENT_BALANCE"
  ELSE "OK"

\* part_005 SubAccountModel.canMakePix: a missing row counts as inactive.
ModelCanMakePix(found, row, amount) ==
  IF ~found \/ ~row.isActive THEN "ACCOUNT_INACTIVE"
  ELSE IF amount > row.maxPix THEN "EXCEEDS_TX_LIMIT"
  ELSE IF row.dailyUsed + amount > row.dailyLimit THEN "EXCEEDS_DAILY_LIMIT"
  ELSE IF row.balance < amount THEN "INSUFFICIENT_BALANCE"
  ELSE "OK"

(***************************************************************************)
(* Documents.                                                              *)
(***************************************************************************)
NewSubAccount(limit) ==
  [balance |-> InitialBalance, maxPix |-> SystemMaxPix, dailyLimit |-> limit,
   dailyUsed |-> 0, dailyCount |-> 0, isActive |-> TRUE, lastReset |-> 0]

NoTx == [status |-> "none", efi |-> 0, err |-> "none", retry |-> 0, amount |-> 0]

\* new PixTransaction({... status: 'pending'}) / PixTransaction.create
NewTx(amount) ==
  [status |-> "pending", efi |-> 0, err |-> "none", retry |-> 0, amount |-> amount]

NoRes == [success |-> FALSE, id |-> 0, err |-> "none", code |-> 0]
NoResp == [op |-> "none", tx |-> 0, code |-> 0, reason |-> "none", status |-> "none",
           warning |-> FALSE, paid |-> FALSE, gwst |-> "none"]

Idle == [kind |-> "idle", pc |-> "idle", tx |-> 0, amt |-> 0,
         doc |-> NewSubAccount(0), mod |-> {}, tdoc |-> NoTx, tmod |-> {}, res |-> NoRes]

Reply(op, t, code, reason, status, warning) ==
  [op |-> op, tx |-> t, code |-> code, reason |-> reason, status |-> status,
   warning |-> warning, paid |-> FALSE, gwst |-> "none"]

\* the response of a payout handler; paid: makePix had answered success
PayoutReply(slot, code, reason, status) ==
  [Reply(slot.kind, slot.tx, code, reason, status, FALSE) EXCEPT !.paid = slot.res.success]

\* StatusReply failing the request when the gateway query failed
StatusReply_ErrorFails(slot, st) ==
  [Reply("status", slot.tx, IF st = "ERROR" THEN 500 ELSE 200, "OK", slot.tdoc.status,
         FALSE) EXCEPT !.gwst = st]

\* the response of GET /status; gwst: what checkPixStatus had answered
StatusReply(slot, st) ==
  [Reply("status", slot.tx, 200, "OK", slot.tdoc.status, FALSE) EXCEPT !.gwst = st]

\* A Mongoose save() sends $set of the modified paths only.
WriteFields(row, doc, fields) ==
  [f \in DOMAIN row |-> IF f \in fields THEN doc[f] ELSE row[f]]

\* PixTransaction.js methods, on the in-memory document.
MarkAsProcessing(d) == [d EXCEPT !.status = "processing"]
\* markAsCompleted leaving the status as it is
MarkAsCompleted_NoStatus(d, efiId) == [d EXCEPT !.efi = efiId]

MarkAsCompleted(d, efiId) == [d EXCEPT !.status = "completed", !.efi = efiId]
\* markAsFailed leaving the error message out
MarkAsFailed_NoMsg(d, msg) == [d EXCEPT !.status = "failed", !.retry = @ + 1]

MarkAsFailed(d, msg) == [d EXCEPT !.status = "failed", !.err = msg, !.retry = @ + 1]
MarkAsCancelled(d) == [d EXCEPT !.status = "cancelled"]
\* canRetry with the bound one too low
CanRetry_OneLess(d) == d.status = "failed" /\ d.retry < MaxRetries - 1

CanRetry(d) == d.status = "failed" /\ d.retry < MaxRetries

\* part_004 PixTransaction (Supabase): markAsFailed leaves the retry count alone.
SupaMarkAsFailed(d, msg) == [d EXCEPT !.status = "failed", !.err = msg]

\* SubAccount.js debitAmount / creditAmount, on the in-memory document.
DebitDoc(d, amount) ==
  [d EXCEPT !.balance = @ - amount, !.dailyUsed = @ + amount, !.dailyCount = @ + 1]
CreditDoc(d, amount) == [d EXCEPT !.balance = @ + amount]

\* SubAccount.js resetDailyCounters, run by the pre('save') hook.
NeedsReset(d) == d.lastReset # today
ResetDoc(d) ==
  IF NeedsReset(d)
  THEN [d EXCEPT !.dailyUsed = 0, !.dailyCount = 0, !.lastReset = today]
  ELSE d
ResetMod(d, mod) ==
  IF NeedsReset(d)
  THEN mod \cup {"lastReset"}
           \cup (IF d.dailyUsed # 0 \/ "dailyUsed" \in mod THEN {"dailyUsed"} ELSE {})
           \cup (IF d.dailyCount # 0 \/ "dailyCount" \in mod THEN {"dailyCount"} ELSE {})
  ELSE mod

\* The character classes of the key patterns: \d, [a-zA-Z0-9] and \s.
Digits == {"0", "1", "2", "3", "4", "5", "6", "7", "8", "9"}
Letters ==
  {"a", "b", "c", "d", "e", "f", "g", "h", "i", "j", "k", "l", "m", "n", "o", "p", "q",
   "r", "s", "t", "u", "v", "w", "x", "y", "z", "A", "B", "C", "D", "E", "F", "G", "H",
   "I", "J", "K", "L", "M", "N", "O", "P", "Q", "R", "S", "T", "U", "V", "W", "X", "Y",
   "Z"}
Whitespace == {" ", "\t", "\n"}

\* A key of the given length whose characters at the positions of `lits` are
\* those literals and whose other characters are digits.
DigitsAndLiterals(key, len, lits) ==
  /\ Len(key) = len
  /\ \A i \in 1..len :
       IF i \in DOMAIN lits THEN key[i] = lits[i] ELSE key[i] \in Digits

\* /^\d{3}\.\d{3}\.\d{3}-\d{2}$/
CpfPattern(key) ==
  DigitsAndLiterals(key, 14, (4 :> ".") @@ (8 :> ".") @@ (12 :> "-"))

\* /^\d{2}\.\d{3}\.\d{3}\/\d{4}-\d{2}$/
CnpjPattern(key) ==
  DigitsAndLiterals(key, 18, (3 :> ".") @@ (7 :> ".") @@ (11 :> "/") @@ (16 :> "-"))

\* /^[^\s@]+@[^\s@]+\.[^\s@]+$/ : no white space, exactly one "@" with text
\* before it, and after it a "." with text on both of its sides.
EmailPattern_NoDot(key) ==
  LET ats == {i \in 1..Len(key) : key[i] = "@"} IN
  /\ \A i \in 1..Len(key) : key[i] \notin Whitespace
  /\ Cardinality(ats) = 1
  /\ \A p \in ats : p > 1 /\ p < Len(key)
EmailPattern(key) ==
  LET ats == {i \in 1..Len(key) : key[i] = "@"} IN
  /\ \A i \in 1..Len(key) : key[i] \notin Whitespace
  /\ Cardinality(ats) = 1
  /\ \A p \in ats : p > 1 /\ \E q \in (p + 2)..(Len(key) - 1) : key[q] = "."

\* /^\+55\d{2}\d{5}\d{4}$/
PhonePattern(key) ==
  DigitsAndLiterals(key, 14, (1 :> "+") @@ (2 :> "5") @@ (3 :> "5"))

\* /^[a-zA-Z0-9]{32}$/
RandomPattern(key) ==
  /\ Len(key) = 32
  /\ \A i \in 1..32 : key[i] \in Digits \cup Letters

KeyTypes == {"cpf", "cnpj", "email", "phone", "random"}

\* efiBankService.validatePixKey: the `valid` of its result.
ValidatePixKey(key, type) ==
  CASE type = "cpf" -> CpfPattern(key)
    [] type = "cnpj" -> CnpjPattern(key)
    [] type = "email" -> EmailPattern(key)
    [] type = "phone" -> PhonePattern(key)
    [] type = "random" -> RandomPattern(key)
    [] OTHER -> FALSE

DetectPixKeyType_LooseEmail(key) ==
  IF CpfPattern(key) THEN "cpf"
  ELSE IF CnpjPattern(key) THEN "cnpj"
  ELSE IF EmailPattern_NoDot(key) THEN "email"
  ELSE IF PhonePattern(key) THEN "phone"
  ELSE IF RandomPattern(key) THEN "random"
  ELSE "none"
\* efiBankService.detectPixKeyType; "none" stands for null.
DetectPixKeyType(key) ==
  IF CpfPattern(key) THEN "cpf"
  ELSE IF CnpjPattern(key) THEN "cnpj"
  ELSE IF EmailPattern(key) THEN "email"
  ELSE IF PhonePattern(key) THEN "phone"
  ELSE IF RandomPattern(key) THEN "random"
  ELSE "none"

\* Mongoose marks a path modified when an assignment changes its value.
Changed(old, new) == {f \in DOMAIN old : old[f] # new[f]}

(***************************************************************************)
(* Initial state: a registered account with its SubAccount, no             *)
(* transactions, no request in flight.                                     *)
(***************************************************************************)
\* EfiBankService after its constructor: no token (0 stands for null).
NewEfiBankService == [accessToken |-> 0, tokenExpiry |-> 0]
\* No caller inside authenticate, clock at its start, no token request sent.
NoAuth ==
  [now |-> 1, requests |-> 0, calls |-> 0,
   callers |-> [c \in Callers |-> [pc |-> "idle", token |-> 0, request |-> 0]]]

\* The serverless function at rest: VERCEL_API_SECRET as configured, no
\* request in progress, nothing sent to the bank.
NewFn(secret) ==
  [secret |-> secret, pc |-> "idle", header |-> "undefined", amount |-> 0, code |-> 0,
   calls |-> 0, tokenRequests |-> 0, payouts |-> {}]
NoFn == NewFn("s3cret")

\* No user registered, no row stored, no registration or establishment
\* request in progress.
DirIdle == [pc |-> "idle", user |-> 0, sub |-> 0]
NoDirReply == [op |-> "none", user |-> 0, est |-> 0, code |-> 0, listed |-> {}]
NoDir ==
  [users |-> {}, subs |-> {}, ests |-> {}, hs |-> [s \in Slots |-> DirIdle],
   reply |-> NoDirReply, ops |-> 0, faults |-> 0]

NoIn == [doc |-> NewSubAccount(0), found |-> FALSE, amount |-> 0]
NoOut == [done |-> FALSE, mongo |-> "none", supabase |-> "none", model |-> "none"]

Init ==
  /\ backend \in Backends
  /\ sa = NewSubAccount(IF backend = "mongo" THEN MongoDailyDefault ELSE SupaDailyDefault)
  /\ txs = [t \in TxIds |-> NoTx]
  /\ h = [s \in Slots |-> Idle]
  /\ today = 0
  /\ faults = 0
  /\ ncredits = 0
  /\ nsettings = 0
  /\ credited = 0
  /\ debited = [t \in TxIds |-> 0]
  /\ gw = [t \in TxIds |-> 0]
  /\ resp = NoResp
  /\ efiSvc = NewEfiBankService /\ auth = NoAuth /\ fn = NoFn
  /\ dir = NoDir
  /\ fnIn = NoIn
  /\ fnOut = NoOut
  /\ ops = 0

IsIdle(s) == h[s].kind = "idle"
Reserved == {h[s].tx : s \in Slots}
\* the id the next created transaction gets
FreeTx == {t \in TxIds : txs[t].status = "none" /\ t \notin Reserved}
NextTx == CHOOSE t \in FreeTx : \A u \in FreeTx : t <= u

Fault == faults < MaxFaults /\ faults' = faults + 1
NoFault == faults' = faults

\* a new request is given the first idle slot
Free(s) == IsIdle(s) /\ \A u \in Slots : u < s => ~IsIdle(u)

Finish(s, r) == h' = [h EXCEPT ![s] = Idle] /\ resp' = r
Goto(s, slot) == h' = [h EXCEPT ![s] = slot] /\ resp' = NoResp
\* a request answered from its first read, and one that goes on
Reject(s, r) == Finish(s, r) /\ ops' = ops
Start(s, slot) == ops < MaxOps /\ ops' = ops + 1 /\ Goto(s, slot)

\* the in-memory transaction after an assignment, with its modified paths
WithTdoc(slot, new) ==
  [slot EXCEPT !.tdoc = new, !.tmod = @ \cup Changed(slot.tdoc, new)]
WithDoc(slot, new) ==
  [slot EXCEPT !.doc = new, !.mod = @ \cup Changed(slot.doc, new)]

(***************************************************************************)
(* POST /process (part_002 468-623; part_000 162-317 is the same handler   *)
(* for the troco route).                                                   *)
(***************************************************************************)
\* ProcessStart creating the record before the limit policy is consulted
ProcessStart_InsertFirst(s, amount, key) ==
  /\ backend = "mongo" /\ Free(s) /\ FreeTx # {}
  /\ LET doc == sa
         reason == CanMakePix(doc, amount)
     IN IF reason # "OK"
        THEN /\ Reject(s, Reply("process", 0, 400, reason, "none", FALSE))
             /\ txs' = [txs EXCEPT ![NextTx] = NewTx(amount)]
        ELSE IF DetectPixKeyType(key) = "none"
        THEN /\ Reject(s, Reply("process", 0, 400, "INVALID_KEY", "none", FALSE))
             /\ txs' = txs
        ELSE /\ Start(s, [Idle EXCEPT !.kind = "process", !.pc = "insert", !.tx = NextTx,
                                     !.amt = amount, !.doc = doc, !.tdoc = NewTx(amount)])
             /\ txs' = txs
  /\ UNCHANGED <<backend, sa, today, faults, ncredits, nsettings, credited,
                 debited, gw, efiSvc, auth, fn, dir, fnIn, fnOut>>

\* findOne of the SubAccount, canMakePix, key detection, new PixTransaction
ProcessStart(s, amount, key) ==
  /\ backend = "mongo" /\ Free(s)
  /\ (CanMakePix(sa, amount) = "OK" /\ DetectPixKeyType(key) # "none") => FreeTx # {}
  /\ LET doc == sa
         reason == CanMakePix(doc, amount)
     IN IF reason # "OK"
        THEN Reject(s, Reply("process", 0, 400, reason, "none", FALSE))
        ELSE IF DetectPixKeyType(key) = "none"
        THEN Reject(s, Reply("process", 0, 400, "INVALID_KEY", "none", FALSE))
        ELSE Start(s, [Idle EXCEPT !.kind = "process", !.pc = "insert", !.tx = NextTx,
                                  !.amt = amount, !.doc = doc, !.tdoc = NewTx(amount)])
  /\ UNCHANGED <<backend, sa, txs, today, faults, ncredits, nsettings, credited,
                 debited, gw, efiSvc, auth, fn, dir, fnIn, fnOut>>

TxInsert_NoWrite(s) ==
  /\ h[s].pc = "insert"
  /\ \/ /\ NoFault
        /\ txs' = txs
        /\ Goto(s, [h[s] EXCEPT !.pc = "makePix"])
     \/ /\ Fault
        /\ txs' = txs
        /\ Finish(s, Reply(h[s].kind, h[s].tx, 500, "INTERNAL", "none", FALSE))
  /\ UNCHANGED <<backend, sa, today, ncredits, nsettings, credited, debited, gw,
                 efiSvc, auth, fn, dir, fnIn, fnOut, ops>>
\* await pixTransaction.save() of the new record
TxInsert(s) ==
  /\ h[s].pc = "insert"
  /\ \/ /\ NoFault
        /\ txs' = [txs EXCEPT ![h[s].tx] = h[s].tdoc]
        /\ Goto(s, [h[s] EXCEPT !.pc = "makePix"])
     \/ /\ Fault
        /\ txs' = txs
        /\ Finish(s, Reply(h[s].kind, h[s].tx, 500, "INTERNAL", "none", FALSE))
  /\ UNCHANGED <<backend, sa, today, ncredits, nsettings, credited, debited, gw,
                 efiSvc, auth, fn, dir, fnIn, fnOut, ops>>

\* await efiBankService.makePix(...), then markAsProcessing or markAsFailed
\* on the in-memory document (efiBankService.js 61-108 never throws)
MakePix(s) ==
  /\ h[s].pc = "makePix"
  /\ LET t == h[s].tx IN
     \/ /\ NoFault
        /\ gw' = [gw EXCEPT ![t] = @ + 1]
        /\ Goto(s, [WithTdoc(h[s], MarkAsProcessing(h[s].tdoc)) EXCEPT
                      !.pc = "markProcessing",
                      !.res = [success |-> TRUE, id |-> gw[t] + 1, err |-> "none",
                               code |-> 200]])
     \/ /\ NoFault
        /\ gw' = gw
        /\ Goto(s, [WithTdoc(h[s], MarkAsFailed(h[s].tdoc, "GW_REJECTED")) EXCEPT
                      !.pc = "markFailed",
                      !.res = [success |-> FALSE, id |-> 0, err |-> "GW_REJECTED",
                               code |-> 400]])
     \/ /\ Fault   \* the bank accepted the payout and the response was lost
        /\ gw' = [gw EXCEPT ![t] = @ + 1]
        /\ Goto(s, [WithTdoc(h[s], MarkAsFailed(h[s].tdoc, "GW_NO_RESPONSE")) EXCEPT
                      !.pc = "markFailed",
                      !.res = [success |-> FALSE, id |-> 0, err |-> "GW_NO_RESPONSE",
                               code |-> 400]])
  /\ UNCHANGED <<backend, sa, txs, today, ncredits, nsettings, credited, debited,
                 efiSvc, auth, fn, dir, fnIn, fnOut, ops>>

\* the catch (efiError) branch: markAsFailed(efiError.message), answer 500
Caught(slot, msg) ==
  [WithTdoc(slot, MarkAsFailed(slot.tdoc, msg)) EXCEPT
     !.pc = "markFailed", !.res = [slot.res EXCEPT !.code = 500, !.err = msg]]

\* await pixTransaction.markAsProcessing(), then the synchronous part of
\* subAccount.debitAmount(amount)
MarkProcessing(s) ==
  /\ h[s].pc = "markProcessing"
  /\ \/ /\ NoFault
        /\ txs' = [txs EXCEPT ![h[s].tx] = WriteFields(@, h[s].tdoc, h[s].tmod)]
        /\ LET saved == [h[s] EXCEPT !.tmod = {}]
               check == CanMakePix(saved.doc, saved.amt)
           IN IF saved.amt <= 0 \/ check # "OK"
              THEN Goto(s, Caught(saved, check))
              ELSE Goto(s, [WithDoc(saved, DebitDoc(saved.doc, saved.amt)) EXCEPT
                             !.pc = "debit"])
     \/ /\ Fault
        /\ txs' = txs
        /\ Goto(s, Caught(h[s], "DB_ERROR"))
  /\ UNCHANGED <<backend, sa, today, ncredits, nsettings, credited, debited, gw,
                 efiSvc, auth, fn, dir, fnIn, fnOut, ops>>

(***************************************************************************)
(* Mongoose save() of the SubAccount document: the pre('save') hook runs   *)
(* resetDailyCounters, the schema validators run on the modified paths,    *)
(* and the modified paths are written.  On a new calendar day the hook     *)
(* calls this.save() from inside the running save; whether that nested     *)
(* save is let through or rejected as a parallel save is decided by the    *)
(* Mongoose build, so both outcomes are kept.                              *)
(***************************************************************************)
\* SubAccount.js schema validators (min/max) on the modified paths
SchemaValid(doc, mod) ==
  /\ "balance" \in mod => doc.balance >= 0
  /\ "maxPix" \in mod => doc.maxPix >= 1 /\ doc.maxPix <= SystemMaxPix
  /\ "dailyLimit" \in mod => doc.dailyLimit >= 0
  /\ "dailyUsed" \in mod => doc.dailyUsed >= 0
  /\ "dailyCount" \in mod => doc.dailyCount >= 0

\* the document and its modified paths once the hook has run
Hooked(slot) ==
  [slot EXCEPT !.doc = ResetDoc(slot.doc), !.mod = ResetMod(slot.doc, slot.mod)]

\* the save goes through: the stored row afterwards
SavedRow(slot) == WriteFields(sa, Hooked(slot).doc, Hooked(slot).mod)
SaveCanPass(slot) == SchemaValid(Hooked(slot).doc, Hooked(slot).mod)
\* the save is rejected without an injected fault
SaveRejects(slot) == NeedsReset(slot.doc) \/ ~SaveCanPass(slot)

\* await subAccount.debitAmount(amount): the save, then markAsCompleted on
\* the in-memory transaction
Debit(s) ==
  /\ h[s].pc = "debit"
  /\ LET t == h[s].tx IN
     \/ /\ NoFault /\ SaveCanPass(h[s])
        /\ sa' = SavedRow(h[s])
        /\ debited' = [debited EXCEPT ![t] = @ + 1]
        /\ LET saved == [Hooked(h[s]) EXCEPT !.mod = {}]
           IN Goto(s, [WithTdoc(saved, MarkAsCompleted(saved.tdoc, saved.res.id))
                        EXCEPT !.pc = "markCompleted"])
     \/ /\ NoFault /\ SaveRejects(h[s])
        /\ sa' = sa /\ debited' = debited
        /\ Goto(s, Caught(Hooked(h[s]), "SAVE_REJECTED"))
     \/ /\ Fault
        /\ sa' = sa /\ debited' = debited
        /\ Goto(s, Caught(Hooked(h[s]), "DB_ERROR"))
  /\ UNCHANGED <<backend, txs, today, ncredits, nsettings, credited, gw,
                 efiSvc, auth, fn, dir, fnIn, fnOut, ops>>

\* await pixTransaction.markAsCompleted(...), then the success response
MarkCompleted(s) ==
  /\ h[s].pc = "markCompleted"
  /\ \/ /\ NoFault
        /\ txs' = [txs EXCEPT ![h[s].tx] = WriteFields(@, h[s].tdoc, h[s].tmod)]
        /\ Finish(s, PayoutReply(h[s], 200, "OK", h[s].tdoc.status))
     \/ /\ Fault
        /\ txs' = txs
        /\ Goto(s, Caught(h[s], "DB_ERROR"))
  /\ UNCHANGED <<backend, sa, today, ncredits, nsettings, credited, debited, gw,
                 efiSvc, auth, fn, dir, fnIn, fnOut, ops>>

\* await pixTransaction.markAsFailed(...), then the failure response; a
\* failing save falls to the outer catch
MarkFailed(s) ==
  /\ h[s].pc = "markFailed"
  /\ \/ /\ NoFault
        /\ txs' = [txs EXCEPT ![h[s].tx] = WriteFields(@, h[s].tdoc, h[s].tmod)]
        /\ Finish(s, PayoutReply(h[s], h[s].res.code, h[s].res.err, h[s].tdoc.status))
     \/ /\ Fault
        /\ txs' = txs
        /\ Finish(s, PayoutReply(h[s], 500, "INTERNAL", "none"))
  /\ UNCHANGED <<backend, sa, today, ncredits, nsettings, credited, debited, gw,
                 efiSvc, auth, fn, dir, fnIn, fnOut, ops>>

(***************************************************************************)
(* POST /retry/:transactionId (part_002 808-935).                          *)
(***************************************************************************)
\* findOne of the transaction, canRetry
RetryStart(s, t) ==
  /\ backend = "mongo" /\ Free(s)
  /\ LET tdoc == txs[t] IN
     IF tdoc.status = "none"
     THEN Reject(s, Reply("retry", t, 404, "NOT_FOUND", "none", FALSE))
     ELSE IF ~CanRetry(tdoc)
     THEN Reject(s, Reply("retry", t, 400, "NOT_RETRYABLE", tdoc.status, FALSE))
     ELSE Start(s, [Idle EXCEPT !.kind = "retry", !.pc = "retryFindSub", !.tx = t,
                               !.amt = tdoc.amount, !.tdoc = tdoc])
  /\ UNCHANGED <<backend, sa, txs, today, faults, ncredits, nsettings, credited,
                 debited, gw, efiSvc, auth, fn, dir, fnIn, fnOut>>

\* RetryFindSub without the limit policy
RetryFindSub_NoPolicy(s) ==
  /\ h[s].pc = "retryFindSub"
  /\ LET doc == sa
     IN Goto(s, [WithTdoc([h[s] EXCEPT !.doc = doc],
                          [h[s].tdoc EXCEPT !.status = "pending", !.err = "none"])
                  EXCEPT !.pc = "retrySave"])
  /\ UNCHANGED <<backend, sa, txs, today, faults, ncredits, nsettings, credited,
                 debited, gw,
                 efiSvc, auth, fn, dir, fnIn, fnOut, ops>>

\* findOne of the SubAccount, canMakePix, status = 'pending', errorMessage = null
RetryFindSub(s) ==
  /\ h[s].pc = "retryFindSub"
  /\ LET doc == sa
         reason == CanMakePix(doc, h[s].tdoc.amount)
     IN IF reason # "OK"
        THEN Finish(s, Reply("retry", h[s].tx, 400, reason, h[s].tdoc.status, FALSE))
        ELSE Goto(s, [WithTdoc([h[s] EXCEPT !.doc = doc],
                               [h[s].tdoc EXCEPT !.status = "pending", !.err = "none"])
                       EXCEPT !.pc = "retrySave"])
  /\ UNCHANGED <<backend, sa, txs, today, faults, ncredits, nsettings, credited,
                 debited, gw,
                 efiSvc, auth, fn, dir, fnIn, fnOut, ops>>

\* await pixTransaction.save() of the reset record
RetrySave(s) ==
  /\ h[s].pc = "retrySave"
  /\ \/ /\ NoFault
        /\ txs' = [txs EXCEPT ![h[s].tx] = WriteFields(@, h[s].tdoc, h[s].tmod)]
        /\ Goto(s, [h[s] EXCEPT !.pc = "makePix", !.tmod = {}])
     \/ /\ Fault
        /\ txs' = txs
        /\ Finish(s, Reply("retry", h[s].tx, 500, "INTERNAL", "none", FALSE))
  /\ UNCHANGED <<backend, sa, today, ncredits, nsettings, credited, debited, gw,
                 efiSvc, auth, fn, dir, fnIn, fnOut, ops>>

(***************************************************************************)
(* GET /status/:transactionId (part_002 626-691).                          *)
(***************************************************************************)
\* StatusStart consulting the gateway for every record with a gateway id
StatusStart_AnyStatus(s, t) ==
  /\ backend = "mongo" /\ Free(s)
  /\ LET tdoc == txs[t] IN
     IF tdoc.status = "none"
     THEN Reject(s, Reply("status", t, 404, "NOT_FOUND", "none", FALSE))
     ELSE IF tdoc.efi # 0
     THEN Start(s, [Idle EXCEPT !.kind = "status", !.pc = "checkStatus", !.tx = t,
                               !.amt = tdoc.amount, !.tdoc = tdoc])
     ELSE Reject(s, Reply("status", t, 200, "OK", tdoc.status, FALSE))
  /\ UNCHANGED <<backend, sa, txs, today, faults, ncredits, nsettings, credited,
                 debited, gw, efiSvc, auth, fn, dir, fnIn, fnOut>>

StatusStart(s, t) ==
  /\ backend = "mongo" /\ Free(s)
  /\ LET tdoc == txs[t] IN
     IF tdoc.status = "none"
     THEN Reject(s, Reply("status", t, 404, "NOT_FOUND", "none", FALSE))
     ELSE IF tdoc.efi # 0 /\ tdoc.status = "processing"
     THEN Start(s, [Idle EXCEPT !.kind = "status", !.pc = "checkStatus", !.tx = t,
                               !.amt = tdoc.amount, !.tdoc = tdoc])
     ELSE Reject(s, Reply("status", t, 200, "OK", tdoc.status, FALSE))
  /\ UNCHANGED <<backend, sa, txs, today, faults, ncredits, nsettings, credited,
                 debited, gw, efiSvc, auth, fn, dir, fnIn, fnOut>>

\* what efiBankService.checkPixStatus may answer (efiBankService.js 111-137)
GatewayStatuses == {"CONCLUIDA", "REMOVIDA_PELO_USUARIO_RECEBEDOR", "ATIVA", "ERROR"}

\* await checkPixStatus(...), then markAsCompleted / markAsCancelled on the
\* in-memory document
CheckStatus(s, st) ==
  /\ h[s].pc = "checkStatus"
  /\ IF st = "CONCLUIDA" /\ h[s].tdoc.status # "completed"
     THEN Goto(s, [WithTdoc(h[s], MarkAsCompleted(h[s].tdoc, h[s].tdoc.efi)) EXCEPT
                    !.pc = "statusMark", !.res = [NoRes EXCEPT !.err = st]])
     ELSE IF st = "REMOVIDA_PELO_USUARIO_RECEBEDOR" /\ h[s].tdoc.status # "cancelled"
     THEN Goto(s, [WithTdoc(h[s], MarkAsCancelled(h[s].tdoc)) EXCEPT
                    !.pc = "statusMark", !.res = [NoRes EXCEPT !.err = st]])
     ELSE Finish(s, StatusReply(h[s], st))
  /\ UNCHANGED <<backend, sa, txs, today, faults, ncredits, nsettings, credited,
                 debited, gw,
                 efiSvc, auth, fn, dir, fnIn, fnOut, ops>>

\* await of the mark's save; a failure is swallowed by catch (efiError)
StatusMark(s) ==
  /\ h[s].pc = "statusMark"
  /\ \/ /\ NoFault
        /\ txs' = [txs EXCEPT ![h[s].tx] = WriteFields(@, h[s].tdoc, h[s].tmod)]
     \/ /\ Fault
        /\ txs' = txs
  /\ Finish(s, StatusReply(h[s], h[s].res.err))
  /\ UNCHANGED <<backend, sa, today, ncredits, nsettings, credited, debited, gw,
                 efiSvc, auth, fn, dir, fnIn, fnOut, ops>>

(***************************************************************************)
(* DELETE /cancel/:transactionId (part_002 694-805).                       *)
(***************************************************************************)
\* CancelStart without the test for a completed transaction
CancelStart_NoCompletedTest(s, t) ==
  /\ backend = "mongo" /\ Free(s)
  /\ LET tdoc == txs[t] IN
     IF tdoc.status = "none"
     THEN Reject(s, Reply("cancel", t, 404, "NOT_FOUND", "none", FALSE))
     ELSE IF tdoc.status = "cancelled"
     THEN Reject(s, Reply("cancel", t, 400, "ALREADY_CANCELLED", tdoc.status, FALSE))
     ELSE IF tdoc.efi # 0
     THEN Start(s, [Idle EXCEPT !.kind = "cancel", !.pc = "cancelPix", !.tx = t,
                               !.amt = tdoc.amount, !.tdoc = tdoc])
     ELSE Start(s, [WithTdoc([Idle EXCEPT !.kind = "cancel", !.tx = t,
                                         !.amt = tdoc.amount, !.tdoc = tdoc],
                            MarkAsCancelled(tdoc))
                    EXCEPT !.pc = "cancelLocal"])
  /\ UNCHANGED <<backend, sa, txs, today, faults, ncredits, nsettings, credited,
                 debited, gw, efiSvc, auth, fn, dir, fnIn, fnOut>>

CancelStart(s, t) ==
  /\ backend = "mongo" /\ Free(s)
  /\ LET tdoc == txs[t] IN
     IF tdoc.status = "none"
     THEN Reject(s, Reply("cancel", t, 404, "NOT_FOUND", "none", FALSE))
     ELSE IF tdoc.status = "completed"
     THEN Reject(s, Reply("cancel", t, 400, "ALREADY_COMPLETED", tdoc.status, FALSE))
     ELSE IF tdoc.status = "cancelled"
     THEN Reject(s, Reply("cancel", t, 400, "ALREADY_CANCELLED", tdoc.status, FALSE))
     ELSE IF tdoc.efi # 0
     THEN Start(s, [Idle EXCEPT !.kind = "cancel", !.pc = "cancelPix", !.tx = t,
                               !.amt = tdoc.amount, !.tdoc = tdoc])
     ELSE Start(s, [WithTdoc([Idle EXCEPT !.kind = "cancel", !.tx = t,
                                         !.amt = tdoc.amount, !.tdoc = tdoc],
                            MarkAsCancelled(tdoc))
                    EXCEPT !.pc = "cancelLocal"])
  /\ UNCHANGED <<backend, sa, txs, today, faults, ncredits, nsettings, credited,
                 debited, gw, efiSvc, auth, fn, dir, fnIn, fnOut>>

\* await efiBankService.cancelPix(...) (efiBankService.js 140-173 never
\* throws: an error or a timeout comes back as success: false)
CancelPix(s, ok) ==
  /\ h[s].pc = "cancelPix"
  /\ IF ok
     THEN Goto(s, [WithTdoc(h[s], MarkAsCancelled(h[s].tdoc)) EXCEPT !.pc = "cancelMark"])
     ELSE Finish(s, Reply("cancel", h[s].tx, 400, "CANCEL_FAILED", h[s].tdoc.status,
                          FALSE))
  /\ UNCHANGED <<backend, sa, txs, today, faults, ncredits, nsettings, credited,
                 debited, gw,
                 efiSvc, auth, fn, dir, fnIn, fnOut, ops>>

\* await markAsCancelled() inside the try: a failing save is caught and
\* markAsCancelled() is called again
CancelMark(s) ==
  /\ h[s].pc = "cancelMark"
  /\ \/ /\ NoFault
        /\ txs' = [txs EXCEPT ![h[s].tx] = WriteFields(@, h[s].tdoc, h[s].tmod)]
        /\ Finish(s, Reply("cancel", h[s].tx, 200, "OK", h[s].tdoc.status, FALSE))
     \/ /\ Fault
        /\ txs' = txs
        /\ Goto(s, [h[s] EXCEPT !.pc = "cancelAgain"])
  /\ UNCHANGED <<backend, sa, today, ncredits, nsettings, credited, debited, gw,
                 efiSvc, auth, fn, dir, fnIn, fnOut, ops>>

\* await markAsCancelled() of the catch branch: 'cancelado localmente'
CancelAgain(s) ==
  /\ h[s].pc = "cancelAgain"
  /\ \/ /\ NoFault
        /\ txs' = [txs EXCEPT ![h[s].tx] = WriteFields(@, h[s].tdoc, h[s].tmod)]
        /\ Finish(s, Reply("cancel", h[s].tx, 200, "OK", h[s].tdoc.status, TRUE))
     \/ /\ Fault
        /\ txs' = txs
        /\ Finish(s, Reply("cancel", h[s].tx, 500, "INTERNAL", "none", FALSE))
  /\ UNCHANGED <<backend, sa, today, ncredits, nsettings, credited, debited, gw,
                 efiSvc, auth, fn, dir, fnIn, fnOut, ops>>

\* await markAsCancelled() of a record without a gateway id
CancelLocal(s) ==
  /\ h[s].pc = "cancelLocal"
  /\ \/ /\ NoFault
        /\ txs' = [txs EXCEPT ![h[s].tx] = WriteFields(@, h[s].tdoc, h[s].tmod)]
        /\ Finish(s, Reply("cancel", h[s].tx, 200, "OK", h[s].tdoc.status, FALSE))
     \/ /\ Fault
        /\ txs' = txs
        /\ Finish(s, Reply("cancel", h[s].tx, 500, "INTERNAL", "none", FALSE))
  /\ UNCHANGED <<backend, sa, today, ncredits, nsettings, credited, debited, gw,
                 efiSvc, auth, fn, dir, fnIn, fnOut, ops>>

(***************************************************************************)
(* PUT /subaccount and POST /add-balance (part_002 291-391).               *)
(***************************************************************************)
\* 0 stands for a field the request leaves out
SettingsStart(s, maxPixAmount, dailyPixLimit) ==
  /\ backend = "mongo" /\ Free(s) /\ nsettings < MaxSettings
  /\ nsettings' = nsettings + 1
  /\ LET doc == sa
         set1 == IF maxPixAmount # 0 THEN [doc EXCEPT !.maxPix = maxPixAmount] ELSE doc
         set2 == IF dailyPixLimit # 0 THEN [set1 EXCEPT !.dailyLimit = dailyPixLimit]
                 ELSE set1
     IN Start(s, [WithDoc([Idle EXCEPT !.kind = "settings", !.doc = doc], set2)
                  EXCEPT !.pc = "settingsSave"])
  /\ UNCHANGED <<backend, sa, txs, today, faults, ncredits, credited, debited, gw,
                 efiSvc, auth, fn, dir, fnIn, fnOut>>

SettingsSave(s) ==
  /\ h[s].pc = "settingsSave"
  /\ \/ /\ NoFault /\ SaveCanPass(h[s])
        /\ sa' = SavedRow(h[s])
        /\ Finish(s, Reply("settings", 0, 200, "OK", "none", FALSE))
     \/ /\ NoFault /\ SaveRejects(h[s])
        /\ sa' = sa
        /\ Finish(s, Reply("settings", 0, 500, "INTERNAL", "none", FALSE))
     \/ /\ Fault
        /\ sa' = sa
        /\ Finish(s, Reply("settings", 0, 500, "INTERNAL", "none", FALSE))
  /\ UNCHANGED <<backend, txs, today, ncredits, nsettings, credited, debited, gw,
                 efiSvc, auth, fn, dir, fnIn, fnOut, ops>>

\* the caller is an admin (user.role === 'admin')
CreditStart(s, amount) ==
  /\ backend = "mongo" /\ Free(s) /\ ncredits < MaxCredits
  /\ ncredits' = ncredits + 1
  /\ Start(s, [WithDoc([Idle EXCEPT !.kind = "credit", !.amt = amount, !.doc = sa],
                      CreditDoc(sa, amount))
               EXCEPT !.pc = "creditSave"])
  /\ UNCHANGED <<backend, sa, txs, today, faults, nsettings, credited, debited, gw,
                 efiSvc, auth, fn, dir, fnIn, fnOut>>

CreditSave(s) ==
  /\ h[s].pc = "creditSave"
  /\ \/ /\ NoFault /\ SaveCanPass(h[s])
        /\ sa' = SavedRow(h[s])
        /\ credited' = credited + h[s].amt
        /\ Finish(s, Reply("credit", 0, 200, "OK", "none", FALSE))
     \/ /\ NoFault /\ SaveRejects(h[s])
        /\ sa' = sa /\ credited' = credited
        /\ Finish(s, Reply("credit", 0, 500, "INTERNAL", "none", FALSE))
     \/ /\ Fault
        /\ sa' = sa /\ credited' = credited
        /\ Finish(s, Reply("credit", 0, 500, "INTERNAL", "none", FALSE))
  /\ UNCHANGED <<backend, txs, today, ncredits, nsettings, debited, gw,
                 efiSvc, auth, fn, dir, fnIn, fnOut, ops>>

\* midnight passes (counted against the same budget as the requests)
NextDay ==
  /\ today < MaxDay /\ ops < MaxOps
  /\ today' = today + 1
  /\ ops' = ops + 1
  /\ resp' = NoResp
  /\ UNCHANGED <<backend, sa, txs, h, faults, ncredits, nsettings, credited, debited,
                 gw, efiSvc, auth, fn, dir, fnIn, fnOut>>

(***************************************************************************)
(* POST /process-troco, the device route (database.js 135-292), on the     *)
(* Supabase models: every write is an UPDATE of the named columns          *)
(* WHERE id = ..., with values computed from the in-memory snapshot.       *)
(***************************************************************************)
\* findByEstablishmentId, SubAccount.findById, canMakePix, key detection
DeviceStart(s, amount, key) ==
  /\ backend = "supabase" /\ Free(s)
  /\ (SupaCanMakePix(sa, amount) = "OK" /\ DetectPixKeyType(key) # "none") => FreeTx # {}
  /\ LET doc == sa
         reason == SupaCanMakePix(doc, amount)
     IN IF reason # "OK"
        THEN Reject(s, Reply("device", 0, 400, reason, "none", FALSE))
        ELSE IF DetectPixKeyType(key) = "none"
        THEN Reject(s, Reply("device", 0, 400, "INVALID_KEY", "none", FALSE))
        ELSE Start(s, [Idle EXCEPT !.kind = "device", !.pc = "devInsert", !.tx = NextTx,
                                  !.amt = amount, !.doc = doc, !.tdoc = NewTx(amount)])
  /\ UNCHANGED <<backend, sa, txs, today, faults, ncredits, nsettings, credited,
                 debited, gw, efiSvc, auth, fn, dir, fnIn, fnOut>>

\* await PixTransaction.create(...) (part_004 133-154)
DevInsert(s) ==
  /\ h[s].pc = "devInsert"
  /\ \/ /\ NoFault
        /\ txs' = [txs EXCEPT ![h[s].tx] = h[s].tdoc]
        /\ Goto(s, [h[s] EXCEPT !.pc = "devMakePix"])
     \/ /\ Fault
        /\ txs' = txs
        /\ Finish(s, Reply("device", h[s].tx, 500, "INTERNAL", "none", FALSE))
  /\ UNCHANGED <<backend, sa, today, ncredits, nsettings, credited, debited, gw,
                 efiSvc, auth, fn, dir, fnIn, fnOut, ops>>

DevCaught(slot, msg) ==
  [slot EXCEPT !.pc = "devMarkFailed", !.res = [slot.res EXCEPT !.code = 500, !.err = msg]]

\* await efiBankService.makePix(...)
DevMakePix(s) ==
  /\ h[s].pc = "devMakePix"
  /\ LET t == h[s].tx IN
     \/ /\ NoFault
        /\ gw' = [gw EXCEPT ![t] = @ + 1]
        /\ Goto(s, [h[s] EXCEPT !.pc = "devMarkProcessing",
                                !.res = [success |-> TRUE, id |-> gw[t] + 1,
                                         err |-> "none", code |-> 200]])
     \/ /\ NoFault
        /\ gw' = gw
        /\ Goto(s, [h[s] EXCEPT !.pc = "devMarkFailed",
                                !.res = [success |-> FALSE, id |-> 0,
                                         err |-> "GW_REJECTED", code |-> 400]])
     \/ /\ Fault
        /\ gw' = [gw EXCEPT ![t] = @ + 1]
        /\ Goto(s, [h[s] EXCEPT !.pc = "devMarkFailed",
                                !.res = [success |-> FALSE, id |-> 0,
                                         err |-> "GW_NO_RESPONSE", code |-> 400]])
  /\ UNCHANGED <<backend, sa, txs, today, ncredits, nsettings, credited, debited,
                 efiSvc, auth, fn, dir, fnIn, fnOut, ops>>

\* await pixTransaction.markAsProcessing() (part_004 207-228)
DevMarkProcessing(s) ==
  /\ h[s].pc = "devMarkProcessing"
  /\ \/ /\ NoFault
        /\ txs' = [txs EXCEPT ![h[s].tx].status = "processing"]
        /\ Goto(s, [h[s] EXCEPT !.pc = "devDebit", !.tdoc = MarkAsProcessing(@)])
     \/ /\ Fault
        /\ txs' = txs
        /\ Goto(s, DevCaught(h[s], "DB_ERROR"))
  /\ UNCHANGED <<backend, sa, today, ncredits, nsettings, credited, debited, gw,
                 efiSvc, auth, fn, dir, fnIn, fnOut, ops>>

\* part_006 SubAccount.debitAmount: the row after the UPDATE
SupaDebitRow(row, doc, amount) ==
  [row EXCEPT !.balance = doc.balance - amount,
              !.dailyUsed = doc.dailyUsed + amount,
              !.dailyCount = doc.dailyCount + 1]

\* await subAccount.debitAmount(changeAmount)
DevDebit(s) ==
  /\ h[s].pc = "devDebit"
  /\ \/ /\ NoFault
        /\ sa' = SupaDebitRow(sa, h[s].doc, h[s].amt)
        /\ debited' = [debited EXCEPT ![h[s].tx] = @ + 1]
        /\ Goto(s, [h[s] EXCEPT !.pc = "devMarkCompleted", !.doc = sa'])
     \/ /\ Fault
        /\ sa' = sa /\ debited' = debited
        /\ Goto(s, DevCaught(h[s], "DB_ERROR"))
  /\ UNCHANGED <<backend, txs, today, ncredits, nsettings, credited, gw,
                 efiSvc, auth, fn, dir, fnIn, fnOut, ops>>

\* await pixTransaction.markAsCompleted(...) (part_004 231-256)
DevMarkCompleted(s) ==
  /\ h[s].pc = "devMarkCompleted"
  /\ \/ /\ NoFault
        /\ txs' = [txs EXCEPT ![h[s].tx].status = "completed",
                              ![h[s].tx].efi = h[s].res.id]
        /\ Goto(s, [h[s] EXCEPT !.pc = "devConfigure",
                                !.tdoc = MarkAsCompleted(@, h[s].res.id)])
     \/ /\ Fault
        /\ txs' = txs
        /\ Goto(s, DevCaught(h[s], "DB_ERROR"))
  /\ UNCHANGED <<backend, sa, today, ncredits, nsettings, credited, debited, gw,
                 efiSvc, auth, fn, dir, fnIn, fnOut, ops>>

\* await establishment.configureArduino({... lastSeen}) (part_003 170-191),
\* inside the same try as the payout
DevConfigure(s) ==
  /\ h[s].pc = "devConfigure"
  /\ \/ /\ NoFault
        /\ Finish(s, PayoutReply(h[s], 200, "OK", h[s].tdoc.status))
     \/ /\ Fault
        /\ Goto(s, DevCaught(h[s], "DB_ERROR"))
  /\ UNCHANGED <<backend, sa, txs, today, ncredits, nsettings, credited, debited, gw,
                 efiSvc, auth, fn, dir, fnIn, fnOut, ops>>

\* await pixTransaction.markAsFailed(...) (part_004 259-282)
DevMarkFailed(s) ==
  /\ h[s].pc = "devMarkFailed"
  /\ \/ /\ NoFault
        /\ txs' = [txs EXCEPT ![h[s].tx].status = "failed",
                              ![h[s].tx].err = h[s].res.err]
        /\ Finish(s, PayoutReply(h[s], h[s].res.code, h[s].res.err, "failed"))
     \/ /\ Fault
        /\ txs' = txs
        /\ Finish(s, PayoutReply(h[s], 500, "INTERNAL", "none"))
  /\ UNCHANGED <<backend, sa, today, ncredits, nsettings, credited, debited, gw,
                 efiSvc, auth, fn, dir, fnIn, fnOut, ops>>

(***************************************************************************)
(* PUT /subaccount and POST /add-balance on Supabase (part_001 252-353,    *)
(* part_006 159-205).                                                      *)
(***************************************************************************)
SupaSettingsStart(s, maxPixAmount, dailyPixLimit) ==
  /\ backend = "supabase" /\ Free(s) /\ nsettings < MaxSettings
  /\ nsettings' = nsettings + 1
  /\ LET set1 == IF maxPixAmount # 0 THEN [sa EXCEPT !.maxPix = maxPixAmount] ELSE sa
         set2 == IF dailyPixLimit # 0 THEN [set1 EXCEPT !.dailyLimit = dailyPixLimit]
                 ELSE set1
     IN Start(s, [WithDoc([Idle EXCEPT !.kind = "supaSettings", !.doc = sa], set2)
                  EXCEPT !.pc = "supaSettingsSave"])
  /\ UNCHANGED <<backend, sa, txs, today, faults, ncredits, credited, debited, gw,
                 efiSvc, auth, fn, dir, fnIn, fnOut>>

\* await subAccount.updateSettings(settings): UPDATE of the given columns
SupaSettingsSave(s) ==
  /\ h[s].pc = "supaSettingsSave"
  /\ \/ /\ NoFault
        /\ sa' = WriteFields(sa, h[s].doc, h[s].mod \cap {"maxPix", "dailyLimit"})
        /\ Finish(s, Reply("settings", 0, 200, "OK", "none", FALSE))
     \/ /\ Fault
        /\ sa' = sa
        /\ Finish(s, Reply("settings", 0, 500, "INTERNAL", "none", FALSE))
  /\ UNCHANGED <<backend, txs, today, ncredits, nsettings, credited, debited, gw,
                 efiSvc, auth, fn, dir, fnIn, fnOut, ops>>

SupaCreditStart(s, amount) ==
  /\ backend = "supabase" /\ Free(s) /\ ncredits < MaxCredits
  /\ ncredits' = ncredits + 1
  /\ Start(s, [Idle EXCEPT !.kind = "supaCredit", !.pc = "supaCreditSave",
                          !.amt = amount, !.doc = sa])
  /\ UNCHANGED <<backend, sa, txs, today, faults, nsettings, credited, debited, gw,
                 efiSvc, auth, fn, dir, fnIn, fnOut>>

\* await subAccount.addBalance(amount): balance = this.balance + amount
SupaCreditSave(s) ==
  /\ h[s].pc = "supaCreditSave"
  /\ \/ /\ NoFault
        /\ sa' = [sa EXCEPT !.balance = h[s].doc.balance + h[s].amt]
        /\ credited' = credited + h[s].amt
        /\ Finish(s, Reply("credit", 0, 200, "OK", "none", FALSE))
     \/ /\ Fault
        /\ sa' = sa /\ credited' = credited
        /\ Finish(s, Reply("credit", 0, 500, "INTERNAL", "none", FALSE))
  /\ UNCHANGED <<backend, txs, today, ncredits, nsettings, debited, gw,
                 efiSvc, auth, fn, dir, fnIn, fnOut, ops>>

(***************************************************************************)
(* The system.                                                             *)
(***************************************************************************)
Next ==
  \/ \E s \in Slots, a \in Amounts, k \in Keys : ProcessStart(s, a, k)
  \/ \E s \in Slots : TxInsert(s)
  \/ \E s \in Slots : MakePix(s)
  \/ \E s \in Slots : MarkProcessing(s)
  \/ \E s \in Slots : Debit(s)
  \/ \E s \in Slots : MarkCompleted(s)
  \/ \E s \in Slots : MarkFailed(s)
  \/ \E s \in Slots, t \in TxIds : RetryStart(s, t)
  \/ \E s \in Slots : RetryFindSub(s)
  \/ \E s \in Slots : RetrySave(s)
  \/ \E s \in Slots, t \in TxIds : StatusStart(s, t)
  \/ \E s \in Slots, st \in GatewayStatuses : CheckStatus(s, st)
  \/ \E s \in Slots : StatusMark(s)
  \/ \E s \in Slots, t \in TxIds : CancelStart(s, t)
  \/ \E s \in Slots, ok \in BOOLEAN : CancelPix(s, ok)
  \/ \E s \in Slots : CancelMark(s)
  \/ \E s \in Slots : CancelAgain(s)
  \/ \E s \in Slots : CancelLocal(s)
  \/ \E s \in Slots, m \in MaxPixChoices \cup {0}, d \in DailyLimitChoices \cup {0} :
        SettingsStart(s, m, d)
  \/ \E s \in Slots : SettingsSave(s)
  \/ \E s \in Slots, a \in CreditAmounts : CreditStart(s, a)
  \/ \E s \in Slots : CreditSave(s)
  \/ NextDay
  \/ \E s \in Slots, a \in Amounts, k \in Keys : DeviceStart(s, a, k)
  \/ \E s \in Slots : DevInsert(s)
  \/ \E s \in Slots : DevMakePix(s)
  \/ \E s \in Slots : DevMarkProcessing(s)
  \/ \E s \in Slots : DevDebit(s)
  \/ \E s \in Slots : DevMarkCompleted(s)
  \/ \E s \in Slots : DevConfigure(s)
  \/ \E s \in Slots : DevMarkFailed(s)
  \/ \E s \in Slots, m \in MaxPixChoices \cup {0}, d \in DailyLimitChoices \cup {0} :
        SupaSettingsStart(s, m, d)
  \/ \E s \in Slots : SupaSettingsSave(s)
  \/ \E s \in Slots, a \in CreditAmounts : SupaCreditStart(s, a)
  \/ \E s \in Slots : SupaCreditSave(s)

Spec == Init /\ [][Next]_vars

(***************************************************************************)
(* The limit policy alone: a snapshot and an amount are drawn, and the     *)
(* three canMakePix of the repository are applied to them.                 *)
(***************************************************************************)
PolicyBalances == {0, 1000, 5000}
PolicyCaps == {2000, SystemMaxPix}
PolicyDailyLimits == {3000, MongoDailyDefault}
PolicyDailyUsed == {0, 2000, 3000}

PolicyDocs ==
  {[balance |-> b, maxPix |-> m, dailyLimit |-> l, dailyUsed |-> u, dailyCount |-> 0,
    isActive |-> a, lastReset |-> 0] :
     b \in PolicyBalances, m \in PolicyCaps, l \in PolicyDailyLimits,
     u \in PolicyDailyUsed, a \in BOOLEAN}

InitPolicy ==
  /\ backend = "mongo"
  /\ sa = NewSubAccount(MongoDailyDefault)
  /\ txs = [t \in TxIds |-> NoTx]
  /\ h = [s \in Slots |-> Idle]
  /\ today = 0 /\ faults = 0 /\ ncredits = 0 /\ nsettings = 0 /\ credited = 0
  /\ debited = [t \in TxIds |-> 0]
  /\ gw = [t \in TxIds |-> 0]
  /\ resp = NoResp
  /\ ops = 0
  /\ efiSvc = NewEfiBankService /\ auth = NoAuth /\ fn = NoFn
  /\ dir = NoDir
  /\ fnIn \in [doc : PolicyDocs, found : {TRUE}, amount : Amounts]
  /\ fnOut = NoOut

ApplyPolicy ==
  /\ ~fnOut.done
  /\ fnOut' = [done |-> TRUE,
               mongo |-> CanMakePix(fnIn.doc, fnIn.amount),
               supabase |-> SupaCanMakePix(fnIn.doc, fnIn.amount),
               model |-> ModelCanMakePix(fnIn.found, fnIn.doc, fnIn.amount)]
  /\ UNCHANGED <<backend, sa, txs, h, today, faults, ncredits, nsettings, credited,
                 debited, gw, resp, efiSvc, auth,
                 fn, dir, fnIn, ops>>

NextPolicy == ApplyPolicy

SpecPolicy == InitPolicy /\ [][NextPolicy]_vars

(***************************************************************************)
(* Properties.                                                             *)
(***************************************************************************)
Quiet == \A s \in Slots : IsIdle(s)
NoHandlerOn(t) == \A s \in Slots : h[s].tx # t
Terminal == {"completed", "cancelled"}
RECURSIVE SumCompleted(_)
SumCompleted(T) ==
  IF T = {} THEN 0
  ELSE LET t == CHOOSE x \in T : TRUE
       IN (IF txs[t].status = "completed" THEN txs[t].amount ELSE 0)
          + SumCompleted(T \ {t})

\* C1: after any interleaving of initiate, retry, getStatus, cancel, credit and
\* settings updates, the stored balance of the SubAccount is never below zero.
C1_BalanceNeverNegative == sa.balance >= 0

\* a payout has been debited and a further one was denied for lack of balance
C1_Witness ==
  /\ \E t \in TxIds : debited[t] > 0
  /\ sa.balance < InitialBalance
  /\ resp.reason = "INSUFFICIENT_BALANCE"

\* C2: in every reachable state 0 <= dailyUsed <= dailyLimit, also after
\* the daily limit is changed through the settings operation.
C2_DailyUsedWithinLimit == 0 <= sa.dailyUsed /\ sa.dailyUsed <= sa.dailyLimit

\* C3: every change of a stored status follows pending->processing,
\* processing->completed, processing->failed, processing->cancelled or
\* failed->pending.
C3_Edges ==
  {<<"pending", "processing">>, <<"processing", "completed">>,
   <<"processing", "failed">>, <<"processing", "cancelled">>, <<"failed", "pending">>}
C3_OnlySpecEdges ==
  [][\A t \in TxIds :
       (txs[t].status # "none" /\ txs'[t].status # txs[t].status)
          => <<txs[t].status, txs'[t].status>> \in C3_Edges]_vars

\* C4: once a stored status is completed or cancelled no operation changes it
\* again, including a handler that read the record before it became terminal.
C4_TerminalStays ==
  [][\A t \in TxIds :
       txs[t].status \in Terminal => txs'[t].status = txs[t].status]_vars

\* C5: whenever no handler is in flight for a transaction, the SubAccount has
\* been debited for it if and only if its status is completed.
C5_DebitIffCompleted ==
  \A t \in TxIds :
    NoHandlerOn(t) => (debited[t] > 0 <=> txs[t].status = "completed")

\* C6: ledger conservation: with no handler in flight and no write or gateway
\* failure so far, the amounts of the completed transactions sum to
\* initial_balance - current_balance + credits.
C6_Conservation ==
  (Quiet /\ faults = 0) => SumCompleted(TxIds) = InitialBalance - sa.balance + credited

\* C7: two payouts that together exceed the balance are never both debited
\* (no credit having been made): of two concurrent initiates of 40.00 on a
\* balance of 50.00 only one debits.
C7_NoOvershoot ==
  \A t1, t2 \in TxIds :
    (t1 # t2 /\ ncredits = 0 /\ debited[t1] > 0 /\ debited[t2] > 0)
       => txs[t1].amount + txs[t2].amount <= InitialBalance

\* C8: for each transaction id, across initiate, every retry and every status
\* reconciliation, the SubAccount is debited at most once.
C8_AtMostOneDebit == \A t \in TxIds : debited[t] <= 1

\* C9: when the gateway answered a payout submission with success, the handler
\* returns with the transaction completed, carrying the gateway id, and the
\* SubAccount debited for it.
C9_AcceptedEndsCompleted ==
  (resp.op \in {"process", "retry", "device"} /\ resp.paid)
     => /\ txs[resp.tx].status = "completed"
        /\ txs[resp.tx].efi # 0
        /\ debited[resp.tx] > 0

\* C10: the limit policy returns the first failing reason in the order
\* inactive, per-transaction cap, daily cap, balance.
C10_FirstInOrder(doc, amount) ==
  IF ~doc.isActive THEN "ACCOUNT_INACTIVE"
  ELSE IF amount > doc.maxPix THEN "EXCEEDS_TX_LIMIT"
  ELSE IF doc.dailyUsed + amount > doc.dailyLimit THEN "EXCEEDS_DAILY_LIMIT"
  ELSE IF amount > doc.balance THEN "INSUFFICIENT_BALANCE"
  ELSE "OK"
C10_PolicyOrder ==
  fnOut.done =>
    /\ fnOut.mongo = C10_FirstInOrder(fnIn.doc, fnIn.amount)
    /\ fnOut.supabase = C10_FirstInOrder(fnIn.doc, fnIn.amount)
    /\ fnOut.model = C10_FirstInOrder(fnIn.doc, fnIn.amount)

\* C11: an initiate that passed key validation and the limit policy and whose
\* gateway submission succeeded ends with the transaction completed with the
\* gateway id, the balance lower by the amount, dailyUsed higher by the
\* amount and dailyCount higher by 1.  Stated for an initiate that is the only
\* request made so far, with no store or gateway failure.
C11_InitiateContract ==
  (resp.op \in {"process", "device"} /\ resp.paid /\ faults = 0 /\ ops = today + 1)
     => /\ txs[resp.tx].status = "completed"
        /\ txs[resp.tx].efi # 0
        /\ sa.balance = InitialBalance - txs[resp.tx].amount
        /\ sa.dailyUsed = txs[resp.tx].amount
        /\ sa.dailyCount = 1

PolicyReasons ==
  {"ACCOUNT_INACTIVE", "EXCEEDS_TX_LIMIT", "EXCEEDS_DAILY_LIMIT", "INSUFFICIENT_BALANCE"}

\* C12: an initiate denied by the limit policy persists no PixTransaction,
\* starts no handler (so no gateway call is made) and leaves the SubAccount
\* unchanged.
C12_DeniedPersistsNothing ==
  [][(resp'.op \in {"process", "device"} /\ resp'.code = 400
        /\ resp'.reason \in PolicyReasons)
       => (txs' = txs /\ gw' = gw /\ sa' = sa /\ h' = h)]_vars

\* an initiate over the per-transaction cap has just been denied
C12_Witness ==
  /\ resp.op \in {"process", "device"} /\ resp.code = 400
  /\ resp.reason = "EXCEEDS_TX_LIMIT"
  /\ \A t \in TxIds : txs[t].status = "none"
  /\ sa.balance = InitialBalance

PayoutKinds == {"process", "retry", "device"}
GatewayErrors == {"GW_REJECTED", "GW_NO_RESPONSE"}

C14_RetryGuard ==
  [][\A t \in TxIds :
       LET retryable == txs[t].status = "failed" /\ txs[t].retry < 3 IN
       /\ (resp'.op = "retry" /\ resp'.tx = t /\ resp'.reason = "NOT_RETRYABLE")
            => (~retryable /\ txs' = txs /\ sa' = sa /\ gw' = gw /\ h' = h)
       /\ (\E s \in Slots : h[s].kind = "idle" /\ h'[s].kind = "retry" /\ h'[s].tx = t)
            => retryable
       /\ (resp'.op = "retry" /\ resp'.tx = t /\ h' = h /\ txs[t].status # "none")
            => (resp'.reason = "NOT_RETRYABLE" <=> ~retryable)]_vars

\* a failed transaction that has used its 3 attempts was refused a retry
C14_Witness ==
  /\ resp.op = "retry" /\ resp.reason = "NOT_RETRYABLE" /\ resp.code = 400
  /\ txs[resp.tx].status = "failed" /\ txs[resp.tx].retry = 3

\* C15: a cancel that reads a completed or cancelled transaction is rejected:
\* no cancel handler starts on it (so no gateway call is made) and the
\* transaction and the SubAccount are left unchanged.
C15_TerminalCancelRejected ==
  [][\A t \in TxIds :
       /\ (\E s \in Slots : h[s].kind = "idle" /\ h'[s].kind = "cancel" /\ h'[s].tx = t)
            => txs[t].status \notin Terminal
       /\ (resp'.op = "cancel" /\ resp'.tx = t /\ h' = h /\ txs[t].status \in Terminal)
            => /\ resp'.code = 400
               /\ resp'.reason \in {"ALREADY_COMPLETED", "ALREADY_CANCELLED"}
               /\ txs' = txs /\ sa' = sa /\ gw' = gw]_vars

\* a cancel of a completed transaction has just been rejected
C15_Witness ==
  /\ resp.op = "cancel" /\ resp.code = 400 /\ resp.reason = "ALREADY_COMPLETED"
  /\ txs[resp.tx].status = "completed"
  /\ Quiet

\* C16: a cancel of a transaction that has a gateway id, once past the
\* terminal-status test, always leaves the stored status cancelled, and when
\* the gateway-side cancel did not succeed the response carries the warning
\* flag.
C16_CancelAlwaysCancels ==
  (resp.op = "cancel" /\ resp.reason \in {"OK", "CANCEL_FAILED"}
     /\ txs[resp.tx].efi # 0)
     => /\ txs[resp.tx].status = "cancelled"
        /\ resp.reason = "CANCEL_FAILED" => resp.warning

\* C17: a getStatus that reads a completed or cancelled transaction answers
\* with that status, starts no gateway query and changes neither the
\* transaction nor the SubAccount, however often it is called.
C17_TerminalStatusReadOnly ==
  [][\A t \in TxIds :
       /\ (\E s \in Slots : h[s].kind = "idle" /\ h'[s].kind = "status" /\ h'[s].tx = t)
            => txs[t].status \notin Terminal
       /\ (resp'.op = "status" /\ resp'.tx = t /\ h' = h /\ txs[t].status \in Terminal)
            => /\ resp'.code = 200 /\ resp'.status = txs[t].status
               /\ resp'.gwst = "none"
               /\ txs' = txs /\ sa' = sa /\ gw' = gw /\ debited' = debited]_vars

\* the status of a completed transaction has just been returned
C17_Witness ==
  /\ resp.op = "status" /\ resp.code = 200 /\ resp.status = "completed"
  /\ resp.gwst = "none"
  /\ txs[resp.tx].status = "completed" /\ txs[resp.tx].efi # 0
  /\ Quiet

\* C18: a getStatus that reads a processing transaction with a gateway id
\* queries the gateway; on a settled answer its write leaves the transaction
\* completed with the SubAccount debited for it, on a removed-by-receiver
\* answer it leaves the transaction cancelled; getStatus itself writes no
\* debit, and none is ever missing: a gateway id is stored only after the
\* debit of the transaction was written.
C18_Reconcile ==
  [][/\ \A t \in TxIds : txs'[t].efi # 0 => debited'[t] >= 1
     /\ (resp'.op = "status" /\ h' = h /\ resp'.code = 200)
          => ~(txs[resp'.tx].status = "processing" /\ txs[resp'.tx].efi # 0)
     /\ (resp'.op = "status" /\ faults' = faults
           /\ resp'.gwst \in {"CONCLUIDA", "REMOVIDA_PELO_USUARIO_RECEBEDOR"})
          => /\ resp'.gwst = "CONCLUIDA"
                  => (txs'[resp'.tx].status = "completed" /\ debited'[resp'.tx] >= 1)
             /\ resp'.gwst = "REMOVIDA_PELO_USUARIO_RECEBEDOR"
                  => txs'[resp'.tx].status = "cancelled"
             /\ sa' = sa /\ debited' = debited]_vars

\* a settled answer has just moved a processing transaction to completed
C18_Witness ==
  /\ resp.op = "status" /\ resp.gwst = "CONCLUIDA" /\ resp.status = "completed"
  /\ txs[resp.tx].status = "completed" /\ debited[resp.tx] >= 1

\* C19: when the gateway status query fails (checkPixStatus resolves to
\* success: false for an error response, an exception or a failed
\* authentication), getStatus still answers 200 with the status it read, and
\* changes neither the transaction nor the SubAccount.
C19_StatusErrorSwallowed ==
  [][(resp'.op = "status" /\ resp'.gwst = "ERROR")
       => /\ resp'.code = 200
          /\ \E s \in Slots : /\ h[s].pc = "checkStatus" /\ h'[s].kind = "idle"
                              /\ resp'.tx = h[s].tx
                              /\ resp'.status = h[s].tdoc.status
          /\ txs' = txs /\ sa' = sa /\ debited' = debited /\ gw' = gw]_vars

\* a getStatus whose gateway query failed has just answered "processing"
C19_Witness ==
  /\ resp.op = "status" /\ resp.gwst = "ERROR" /\ resp.code = 200
  /\ resp.status = "processing" /\ txs[resp.tx].status = "processing"

\* C20: when the gateway submission times out, the handler returns with the
\* transaction stored as processing, neither completed nor failed.
C20_TimeoutStaysProcessing ==
  (resp.op \in PayoutKinds /\ resp.reason = "GW_NO_RESPONSE")
     => txs[resp.tx].status = "processing"

\* C21: a transaction whose submission failed ambiguously is not resubmitted
\* blindly: no transaction ever has two payout submissions accepted by the
\* gateway.
C21_NoDoublePayout == \A t \in TxIds : gw[t] <= 1

\* C22: a retry evaluates the limit policy on the SubAccount as stored when the
\* retry reads it; when the policy denies, the retry answers with the reason,
\* the gateway is not called, nothing is debited and the transaction it read
\* as failed is left as it is; otherwise it goes on with that snapshot.
C22_RetryPolicyAtRetryTime ==
  [][\A s \in Slots :
       (h[s].pc = "retryFindSub" /\ h'[s] # h[s])
         => LET reason == CanMakePix(sa, h[s].tdoc.amount) IN
            IF reason # "OK"
            THEN /\ h'[s].kind = "idle"
                 /\ resp'.op = "retry" /\ resp'.code = 400 /\ resp'.reason = reason
                 /\ resp'.status = "failed"
                 /\ txs' = txs /\ sa' = sa /\ gw' = gw /\ debited' = debited
            ELSE h'[s].pc = "retrySave" /\ h'[s].doc = sa]_vars

\* a retry was denied for the per-transaction cap lowered since the first attempt
C22_Witness ==
  /\ resp.op = "retry" /\ resp.code = 400 /\ resp.reason = "EXCEEDS_TX_LIMIT"
  /\ txs[resp.tx].status = "failed" /\ txs[resp.tx].amount > sa.maxPix
  /\ gw[resp.tx] = 0 /\ debited[resp.tx] = 0

\* the retry count a retry handler read, seen from its last step (markAsFailed
\* has already added one to the in-memory document)
C23_CountRead(slot) ==
  IF slot.pc = "markFailed" THEN slot.tdoc.retry - 1 ELSE slot.tdoc.retry

\* C23: a retry that resubmitted to the gateway returns with the stored retry
\* count one higher than the count it read, whether it ends completed or
\* failed (its last write being accepted by the store).
C23_RetryCountsOnce ==
  [][\A s \in Slots :
       (h[s].kind = "retry" /\ h[s].pc \in {"markCompleted", "markFailed"}
          /\ h'[s].kind = "idle" /\ faults' = faults)
         => txs'[h[s].tx].retry = C23_CountRead(h[s]) + 1]_vars

(***************************************************************************)
(* GET /status and DELETE /cancel racing on one transaction.  The start is *)
(* a state Spec reaches with no handler in flight: the first attempt was   *)
(* paid and debited but its markAsCompleted write failed (stored failed,   *)
(* with the gateway id); the retry was paid again and stored processing,   *)
(* then its debit save and its markAsFailed write were both refused.       *)
(***************************************************************************)
RaceStart ==
  /\ backend = "mongo"
  /\ sa = [NewSubAccount(MongoDailyDefault) EXCEPT
             !.balance = InitialBalance - 1050, !.dailyUsed = 1050, !.dailyCount = 1]
  /\ txs = [t \in TxIds |->
              IF t = 1
              THEN [status |-> "processing", efi |-> 1, err |-> "none", retry |-> 1,
                    amount |-> 1050]
              ELSE NoTx]
  /\ h = [s \in Slots |-> Idle]
  /\ today = 1
  /\ ncredits = 0 /\ nsettings = 0 /\ credited = 0
  /\ debited = [t \in TxIds |-> IF t = 1 THEN 1 ELSE 0]
  /\ gw = [t \in TxIds |-> IF t = 1 THEN 2 ELSE 0]
  /\ efiSvc = NewEfiBankService /\ auth = NoAuth /\ fn = NoFn
  /\ dir = NoDir
  /\ fnIn = NoIn /\ fnOut = NoOut

InitRace == RaceStart /\ faults = 0 /\ ops = 0 /\ resp = NoResp

NextRace ==
  \/ \E s \in Slots, t \in TxIds : StatusStart(s, t)
  \/ \E s \in Slots, st \in GatewayStatuses : CheckStatus(s, st)
  \/ \E s \in Slots : StatusMark(s)
  \/ \E s \in Slots, t \in TxIds : CancelStart(s, t)
  \/ \E s \in Slots, ok \in BOOLEAN : CancelPix(s, ok)
  \/ \E s \in Slots : CancelMark(s)
  \/ \E s \in Slots : CancelAgain(s)

SpecRace == InitRace /\ [][NextRace]_vars

\* C24: with a getStatus reconciliation and a cancel running concurrently on
\* one processing transaction, a record stored as cancelled is not moved to
\* another status by a settled answer that arrives later.
C24_CancelledNotResurrected ==
  [][\A t \in TxIds : txs[t].status = "cancelled" => txs'[t].status = "cancelled"]_vars

(***************************************************************************)
(* The key classifier as a function: detectPixKeyType and validatePixKey   *)
(* applied to one key.  The keys are one well-formed sample of each type   *)
(* and their neighbours: one character replaced, one character removed,    *)
(* one character added at either end.                                      *)
(***************************************************************************)
CpfSample == <<"1", "2", "3", ".", "4", "5", "6", ".", "7", "8", "9", "-", "0", "9">>
CnpjSample ==
  <<"1", "2", ".", "3", "4", "5", ".", "6", "7", "8", "/", "0", "0", "0", "1", "-", "9",
    "5">>
PhoneSample == <<"+", "5", "5", "1", "1", "9", "8", "7", "6", "5", "4", "3", "2", "1">>
RandomSample == [i \in 1..32 |-> IF i % 2 = 0 THEN "a" ELSE "7"]
KeySamples == {CpfSample, CnpjSample, EmailSample, PhoneSample, RandomSample}
KeyAlphabet == {"7", "x", "Z", ".", "-", "/", "@", "+", " ", "_"}

KeyInputs ==
  KeySamples
    \cup UNION {{[k EXCEPT ![i] = c] : i \in 1..Len(k), c \in KeyAlphabet} :
                  k \in KeySamples}
    \cup UNION {{SubSeq(k, 1, i - 1) \o SubSeq(k, i + 1, Len(k)) : i \in 1..Len(k)} :
                  k \in KeySamples}
    \cup {Append(k, c) : k \in KeySamples, c \in KeyAlphabet}
    \cup {<<c>> \o k : k \in KeySamples, c \in KeyAlphabet}
    \cup {<<>>}

NoKeyOut == [done |-> FALSE, type |-> "none", valid |-> {}]

InitKey ==
  /\ backend = "mongo"
  /\ sa = NewSubAccount(MongoDailyDefault)
  /\ txs = [t \in TxIds |-> NoTx]
  /\ h = [s \in Slots |-> Idle]
  /\ today = 0 /\ faults = 0 /\ ncredits = 0 /\ nsettings = 0 /\ credited = 0
  /\ debited = [t \in TxIds |-> 0]
  /\ gw = [t \in TxIds |-> 0]
  /\ resp = NoResp
  /\ ops = 0
  /\ efiSvc = NewEfiBankService /\ auth = NoAuth /\ fn = NoFn
  /\ dir = NoDir
  /\ fnIn \in [key : KeyInputs]
  /\ fnOut = NoKeyOut

ApplyKey ==
  /\ ~fnOut.done
  /\ fnOut' = [done |-> TRUE,
               type |-> DetectPixKeyType(fnIn.key),
               valid |-> {t \in KeyTypes : ValidatePixKey(fnIn.key, t)}]
  /\ UNCHANGED <<backend, sa, txs, h, today, faults, ncredits, nsettings, credited,
                 debited, gw, resp, efiSvc, auth,
                 fn, dir, fnIn, ops>>

NextKey == ApplyKey

SpecKey == InitKey /\ [][NextKey]_vars

\* C25: a key that is a valid sample of one of the five types is classified
\* as exactly that type, and a key that matches none of the five patterns is
\* classified as none.
C25_ClassifierRoundTrip ==
  fnOut.done =>
    /\ \A t \in fnOut.valid : fnOut.type = t
    /\ fnOut.valid = {} => fnOut.type = "none"
    /\ fnIn.key \in KeySamples => fnOut.type # "none"

\* The 32-character token sample has been classified, as a random key.
C25_Witness ==
  /\ fnOut.done
  /\ fnIn.key = RandomSample
  /\ fnOut.valid = {"random"}
  /\ fnOut.type = "random"

(***************************************************************************)
(* efiBankService.authenticate.  A caller either returns the cached token  *)
(* at once or posts a token request and is suspended until the bank        *)
(* answers; the bank numbers the tokens it issues by request.              *)
(***************************************************************************)
TokenValid == efiSvc.accessToken # 0 /\ efiSvc.tokenExpiry > auth.now

\* if (this.accessToken && this.tokenExpiry > Date.now()) return it;
\* otherwise axios.post('/oauth/token') and wait.
AuthCall(c) ==
  /\ auth.callers[c].pc # "posting"
  /\ auth.calls < MaxAuthCalls
  /\ IF TokenValid
     THEN auth' = [auth EXCEPT !.calls = @ + 1,
                               !.callers[c] = [pc |-> "returned",
                                               token |-> efiSvc.accessToken,
                                               request |-> 0]]
     ELSE auth' = [auth EXCEPT !.calls = @ + 1,
                               !.requests = @ + 1,
                               !.callers[c] = [pc |-> "posting", token |-> 0,
                                               request |-> auth.requests + 1]]
  /\ UNCHANGED <<backend, sa, txs, h, today, faults, ncredits, nsettings, credited,
                 debited, gw, resp, efiSvc, fn, dir, fnIn, fnOut, ops>>

\* The token response arrives: accessToken and tokenExpiry are stored and
\* the token is returned.
AuthResponse(c, expiresIn) ==
  /\ auth.callers[c].pc = "posting"
  /\ efiSvc' = [accessToken |-> auth.callers[c].request,
                tokenExpiry |-> auth.now + expiresIn]
  /\ auth' = [auth EXCEPT !.callers[c] = [pc |-> "returned",
                                          token |-> auth.callers[c].request,
                                          request |-> auth.callers[c].request]]
  /\ UNCHANGED <<backend, sa, txs, h, today, faults, ncredits, nsettings, credited,
                 debited, gw, resp, fn, dir, fnIn, fnOut, ops>>

\* The token request fails: catch, throw 'Falha na autenticação com EFI Bank'.
AuthError(c) ==
  /\ auth.callers[c].pc = "posting"
  /\ auth' = [auth EXCEPT !.callers[c] = [pc |-> "threw", token |-> 0,
                                          request |-> auth.callers[c].request]]
  /\ UNCHANGED <<backend, sa, txs, h, today, faults, ncredits, nsettings, credited,
                 debited, gw, resp, efiSvc, fn, dir, fnIn, fnOut, ops>>

\* Date.now() advances.
Tick ==
  /\ auth.now < MaxNow
  /\ auth' = [auth EXCEPT !.now = @ + 1]
  /\ UNCHANGED <<backend, sa, txs, h, today, faults, ncredits, nsettings, credited,
                 debited, gw, resp, efiSvc, fn, dir, fnIn, fnOut, ops>>

InitAuth ==
  /\ backend = "mongo"
  /\ sa = NewSubAccount(MongoDailyDefault)
  /\ txs = [t \in TxIds |-> NoTx]
  /\ h = [s \in Slots |-> Idle]
  /\ today = 0 /\ faults = 0 /\ ncredits = 0 /\ nsettings = 0 /\ credited = 0
  /\ debited = [t \in TxIds |-> 0]
  /\ gw = [t \in TxIds |-> 0]
  /\ resp = NoResp
  /\ ops = 0
  /\ efiSvc = NewEfiBankService /\ auth = NoAuth /\ fn = NoFn
  /\ dir = NoDir
  /\ fnIn = NoIn /\ fnOut = NoOut

NextAuth ==
  \/ \E c \in Callers : AuthCall(c)
  \/ \E c \in Callers, e \in ExpiresInChoices : AuthResponse(c, e)
  \/ \E c \in Callers : AuthError(c)
  \/ Tick

SpecAuth == InitAuth /\ [][NextAuth]_vars

\* C26: a call of authenticate made while the cached token has not expired
\* sends no token request and returns the cached token; a call made with no
\* valid token cached while another caller's token request is outstanding
\* sends no second request.
C26_CacheAndSingleFlight ==
  [][\A c \in Callers :
       (auth'.callers[c] # auth.callers[c] /\ auth'.calls = auth.calls + 1)
         => /\ TokenValid
                 => /\ auth'.requests = auth.requests
                    /\ auth'.callers[c].pc = "returned"
                    /\ auth'.callers[c].token = efiSvc.accessToken
            /\ (~TokenValid /\ \E d \in Callers : auth.callers[d].pc = "posting")
                 => auth'.requests = auth.requests]_vars

\* C27: an initiate handler reaches its gateway call only with its record
\* stored as pending, and whenever an initiate handler submits a payout to
\* the gateway the transaction record exists in the store.
C27_RecordBeforeSubmission ==
  [][\A s \in Slots :
       h[s].kind \in {"process", "device"}
         => /\ (h[s].pc \in {"insert", "devInsert"}
                  /\ h'[s].pc \in {"makePix", "devMakePix"})
                 => txs'[h[s].tx].status = "pending"
            /\ (h[s].pc \in {"makePix", "devMakePix"} /\ h'[s] # h[s]
                  /\ gw'[h[s].tx] > gw[h[s].tx])
                 => txs[h[s].tx].status # "none"]_vars

\* An initiate handler has just had its payout accepted by the gateway.
C27_Witness ==
  \E s \in Slots :
    /\ h[s].kind \in {"process", "device"}
    /\ h[s].pc \in {"markProcessing", "devMarkProcessing"}
    /\ gw[h[s].tx] = 1
    /\ txs[h[s].tx].status = "pending"

\* C28: when an initiate handler that stored a transaction record returns to
\* its caller, the stored record is completed or failed, never pending or
\* processing, also when a ledger write after the gateway call failed.
C28_InitiateEndsSettled ==
  [][\A s \in Slots :
       (h[s].kind \in {"process", "device"} /\ h'[s].kind = "idle"
          /\ txs'[h[s].tx].status # "none")
         => txs'[h[s].tx].status \notin {"pending", "processing"}]_vars

\* C29: an initiate whose key matches none of the five formats is answered
\* with the invalid-key reason and stores nothing, whatever the limit policy
\* says about the amount of the same request.
C29_KeyBeforePolicy ==
  [][\A s \in Slots, a \in Amounts, k \in Keys :
       (DetectPixKeyType(k) = "none" /\ (ProcessStart(s, a, k) \/ DeviceStart(s, a, k)))
         => /\ resp'.reason = "INVALID_KEY"
            /\ txs' = txs /\ sa' = sa /\ gw' = gw]_vars


(***************************************************************************)
(* The first requests of a new day.  The start is the state Spec reaches   *)
(* at the end of a day, on either backend, with no handler in flight: one  *)
(* payout of 40.00 completed, the balance topped up by 40.00 and the daily *)
(* limit then set to 30.00, so the day's usage is at the limit.            *)
(***************************************************************************)
DayStart ==
  /\ backend \in Backends
  /\ sa = [NewSubAccount(3000) EXCEPT !.dailyUsed = 4000, !.dailyCount = 1]
  /\ txs = [t \in TxIds |->
              IF t = 1
              THEN [status |-> "completed", efi |-> 1, err |-> "none", retry |-> 0,
                    amount |-> 4000]
              ELSE NoTx]
  /\ h = [s \in Slots |-> Idle]
  /\ today = 0
  /\ credited = 4000
  /\ debited = [t \in TxIds |-> IF t = 1 THEN 1 ELSE 0]
  /\ gw = [t \in TxIds |-> IF t = 1 THEN 1 ELSE 0]
  /\ efiSvc = NewEfiBankService /\ auth = NoAuth /\ fn = NoFn
  /\ dir = NoDir
  /\ fnIn = NoIn /\ fnOut = NoOut

InitDay ==
  DayStart /\ faults = 0 /\ ops = 0 /\ ncredits = 0 /\ nsettings = 0 /\ resp = NoResp

NextOfDay ==
  \/ NextDay
  \/ \E s \in Slots, a \in Amounts, k \in Keys : ProcessStart(s, a, k)
  \/ \E s \in Slots : TxInsert(s)
  \/ \E s \in Slots : MakePix(s)
  \/ \E s \in Slots : MarkProcessing(s)
  \/ \E s \in Slots : Debit(s)
  \/ \E s \in Slots : MarkCompleted(s)
  \/ \E s \in Slots : MarkFailed(s)
  \/ \E s \in Slots, a \in CreditAmounts : CreditStart(s, a)
  \/ \E s \in Slots : CreditSave(s)
  \/ \E s \in Slots, a \in Amounts, k \in Keys : DeviceStart(s, a, k)
  \/ \E s \in Slots, a \in CreditAmounts : SupaCreditStart(s, a)
  \/ \E s \in Slots : SupaCreditSave(s)
  \/ \E s \in Slots, m \in MaxPixChoices \cup {0}, d \in DailyLimitChoices \cup {0} :
        SettingsStart(s, m, d)
  \/ \E s \in Slots : SettingsSave(s)
  \/ \E s \in Slots, m \in MaxPixChoices \cup {0}, d \in DailyLimitChoices \cup {0} :
        SupaSettingsStart(s, m, d)
  \/ \E s \in Slots : SupaSettingsSave(s)

SpecDay == InitDay /\ [][NextOfDay]_vars

\* No payout has been debited since the start of SpecDay.
NoDebitSinceDayStart == \A t \in TxIds : debited[t] = IF t = 1 THEN 1 ELSE 0

\* C30: on a day later than the day of the last counter reset and before any
\* debit of that day, an initiate whose amount alone is within the daily
\* limit is not denied for the daily cap: the policy is evaluated on counters
\* already reset.
C30_FirstEvaluationAfterReset ==
  [][\A s \in Slots, a \in Amounts, k \in Keys :
       (today > sa.lastReset /\ NoDebitSinceDayStart /\ a <= sa.dailyLimit
          /\ (ProcessStart(s, a, k) \/ DeviceStart(s, a, k)))
         => resp'.reason # "EXCEEDS_DAILY_LIMIT"]_vars

\* C31: the first debit of a SubAccount on a day later than its last reset
\* is accounted on counters already reset: afterwards dailyUsed is that
\* payout's amount and dailyCount is 1.
C31_ResetBeforeFirstDebit ==
  [][\A s \in Slots :
       (h[s].pc \in {"debit", "devDebit"} /\ today > sa.lastReset
          /\ (\A t \in TxIds : debited[t] = 0)
          /\ debited'[h[s].tx] = 1)
         => sa'.dailyUsed = h[s].tdoc.amount /\ sa'.dailyCount = 1]_vars

(***************************************************************************)
(* POST /calculate: the change for a sale, as a function of the request    *)
(* and of the SubAccount it reads.  The route writes nothing.              *)
(***************************************************************************)
CalcAmounts == {0, 1050, 5000, 20000}

CalcReply(code, reason, change) ==
  [done |-> TRUE, code |-> code, reason |-> reason, change |-> change]
NoCalcOut == [done |-> FALSE, code |-> 0, reason |-> "none", change |-> 0]

CalculateChange_ZeroRejected(found, doc, total, paid) ==
  IF total < 1 \/ paid < 1 THEN CalcReply(400, "VALIDATION", 0)
  ELSE LET change == paid - total IN
       IF change <= 0 THEN CalcReply(400, "UNDERPAID", 0)
       ELSE IF change > SystemMaxPix THEN CalcReply(400, "EXCEEDS_SYSTEM_LIMIT", change)
       ELSE IF ~found THEN CalcReply(404, "NOT_FOUND", 0)
       ELSE IF CanMakePix(doc, change) # "OK"
       THEN CalcReply(400, CanMakePix(doc, change), change)
       ELSE CalcReply(200, "OK", change)
\* isFloat({min: 0.01}) on both amounts, change = paidAmount - totalAmount,
\* then the tests in the order of the route.
CalculateChange(found, doc, total, paid) ==
  IF total < 1 \/ paid < 1 THEN CalcReply(400, "VALIDATION", 0)
  ELSE LET change == paid - total IN
       IF change < 0 THEN CalcReply(400, "UNDERPAID", 0)
       ELSE IF change = 0 THEN CalcReply(200, "NO_CHANGE", 0)
       ELSE IF change > SystemMaxPix THEN CalcReply(400, "EXCEEDS_SYSTEM_LIMIT", change)
       ELSE IF ~found THEN CalcReply(404, "NOT_FOUND", 0)
       ELSE IF CanMakePix(doc, change) # "OK"
       THEN CalcReply(400, CanMakePix(doc, change), change)
       ELSE CalcReply(200, "OK", change)

InitCalc ==
  /\ backend = "mongo"
  /\ sa \in PolicyDocs
  /\ txs = [t \in TxIds |-> NoTx]
  /\ h = [s \in Slots |-> Idle]
  /\ today = 0 /\ faults = 0 /\ ncredits = 0 /\ nsettings = 0 /\ credited = 0
  /\ debited = [t \in TxIds |-> 0]
  /\ gw = [t \in TxIds |-> 0]
  /\ resp = NoResp
  /\ ops = 0
  /\ efiSvc = NewEfiBankService /\ auth = NoAuth /\ fn = NoFn
  /\ dir = NoDir
  /\ fnIn \in [total : CalcAmounts, paid : CalcAmounts, found : BOOLEAN]
  /\ fnOut = NoCalcOut

Calculate ==
  /\ ~fnOut.done
  /\ fnOut' = CalculateChange(fnIn.found, sa, fnIn.total, fnIn.paid)
  /\ UNCHANGED <<backend, sa, txs, h, today, faults, ncredits, nsettings, credited,
                 debited, gw, resp, efiSvc, auth, fn, dir, fnIn, ops>>

NextCalc == Calculate

SpecCalc == InitCalc /\ [][NextCalc]_vars

\* C32: for amounts that pass the request validation, the change calculation
\* answers success with change 0 when paid equals owed and an error when paid
\* is lower than owed; in every outcome it stores no PixTransaction, makes no
\* gateway call and leaves the SubAccount unchanged.
C32_CalculateIsReadOnly ==
  [][(fnOut'.done /\ ~fnOut.done)
       => /\ (fnIn.total >= 1 /\ fnIn.paid = fnIn.total)
               => fnOut'.code = 200 /\ fnOut'.change = 0
          /\ (fnIn.paid >= 1 /\ fnIn.paid < fnIn.total)
               => fnOut'.code = 400 /\ fnOut'.reason = "UNDERPAID"
          /\ txs' = txs /\ gw' = gw /\ sa' = sa /\ debited' = debited /\ h' = h]_vars

\* A sale paid with the exact amount has been answered.
C32_Witness ==
  /\ fnOut.done
  /\ fnIn.total = 1050 /\ fnIn.paid = 1050
  /\ fnOut.code = 200 /\ fnOut.change = 0

(***************************************************************************)
(* api/process-pix.js: the serverless handler.  An absent header and an    *)
(* unset VERCEL_API_SECRET are both the value undefined.                   *)
(***************************************************************************)
SecretConfigs == {"undefined", "s3cret"}
SecretHeaders == {"undefined", "s3cret", "guess"}
FnAmounts == {0, 1050, 15000}

\* POST: the secret test, the required-fields test, then getEFIToken sends
\* the token request.
FnRequest(header, amount) ==
  /\ fn.pc = "idle" /\ fn.calls < MaxFnCalls
  /\ fn' = IF header # fn.secret
           THEN [fn EXCEPT !.calls = @ + 1, !.header = header, !.amount = amount,
                           !.code = 401]
           ELSE IF amount = 0
           THEN [fn EXCEPT !.calls = @ + 1, !.header = header, !.amount = amount,
                           !.code = 400]
           ELSE [fn EXCEPT !.calls = @ + 1, !.header = header, !.amount = amount,
                           !.code = 0, !.pc = "token", !.tokenRequests = @ + 1]
  /\ UNCHANGED <<backend, sa, txs, h, today, faults, ncredits, nsettings, credited,
                 debited, gw, resp, efiSvc, auth, dir, fnIn, fnOut, ops>>

\* The token answer: createPixTransaction sends the charge, or the rejected
\* promise is caught and answered 500.
FnToken(ok) ==
  /\ fn.pc = "token"
  /\ fn' = IF ok
           THEN [fn EXCEPT !.pc = "pix", !.payouts = @ \cup {fn.amount}]
           ELSE [fn EXCEPT !.pc = "idle", !.code = 500]
  /\ UNCHANGED <<backend, sa, txs, h, today, faults, ncredits, nsettings, credited,
                 debited, gw, resp, efiSvc, auth, dir, fnIn, fnOut, ops>>

\* The bank's answer to the charge: 200 with the result, or 500.
FnPix(ok) ==
  /\ fn.pc = "pix"
  /\ fn' = [fn EXCEPT !.pc = "idle", !.code = IF ok THEN 200 ELSE 500]
  /\ UNCHANGED <<backend, sa, txs, h, today, faults, ncredits, nsettings, credited,
                 debited, gw, resp, efiSvc, auth, dir, fnIn, fnOut, ops>>

InitFn ==
  /\ backend = "supabase"
  /\ sa = NewSubAccount(SupaDailyDefault)
  /\ txs = [t \in TxIds |-> NoTx]
  /\ h = [s \in Slots |-> Idle]
  /\ today = 0 /\ faults = 0 /\ ncredits = 0 /\ nsettings = 0 /\ credited = 0
  /\ debited = [t \in TxIds |-> 0]
  /\ gw = [t \in TxIds |-> 0]
  /\ resp = NoResp
  /\ ops = 0
  /\ efiSvc = NewEfiBankService /\ auth = NoAuth
  /\ fn \in {NewFn(c) : c \in SecretConfigs}
  /\ dir = NoDir
  /\ fnIn = NoIn /\ fnOut = NoOut

NextFn ==
  \/ \E hd \in SecretHeaders, a \in FnAmounts : FnRequest(hd, a)
  \/ \E ok \in BOOLEAN : FnToken(ok)
  \/ \E ok \in BOOLEAN : FnPix(ok)

SpecFn == InitFn /\ [][NextFn]_vars

\* C33: every amount the serverless function submits to the bank lies in
\* 0.01..99.99, as the amounts of the other entry points do.
C33_SubmittedAmountsInRange ==
  \A a \in fn.payouts : a >= 1 /\ a <= SystemMaxPix

\* C37: a POST to the serverless function whose X-API-Secret header is
\* absent, or differs from a configured secret, or arrives while no secret is
\* configured, is answered 401 and sends nothing to the bank.
C37_NoSecretNoBankCall ==
  [][(fn'.calls = fn.calls + 1
        /\ (fn'.header = "undefined" \/ fn.secret = "undefined" \/ fn'.header # fn.secret))
       => /\ fn'.code = 401 /\ fn'.pc = "idle"
          /\ fn'.tokenRequests = fn.tokenRequests /\ fn'.payouts = fn.payouts]_vars

(***************************************************************************)
(* Registration and establishments (routes/auth.js, routes/establishments  *)
(* .js on the Supabase models).  A sub_accounts row is [id, user]; an      *)
(* establishments row is [id, creator, user, sub], where creator is the    *)
(* user whose request inserted it (not stored) and 0 stands for null.      *)
(***************************************************************************)
DirFrame ==
  UNCHANGED <<backend, sa, txs, h, today, faults, ncredits, nsettings, credited,
              debited, gw, resp, efiSvc, auth, fn, fnIn, fnOut, ops>>

DirReply(op, u, e, code) == [NoDirReply EXCEPT !.op = op, !.user = u, !.est = e, !.code = code]
DirBusy(u) == \E s \in Slots : dir.hs[s].pc # "idle" /\ dir.hs[s].user = u
SubsOf(u) == {r \in dir.subs : r.user = u}
NewSubId == Cardinality(dir.subs) + 1
NewEstId == Cardinality(dir.ests) + 1
DirStart(s) == dir.hs[s].pc = "idle" /\ dir.ops < MaxDirOps
DirFault == dir.faults < MaxFaults

\* POST /register: User.findByEmail
RegisterStart(s, u) ==
  /\ DirStart(s)
  /\ dir' = IF u \in dir.users
            THEN [dir EXCEPT !.reply = DirReply("register", u, 0, 400)]
            ELSE [dir EXCEPT !.ops = @ + 1, !.reply = NoDirReply,
                             !.hs[s] = [pc |-> "regUser", user |-> u, sub |-> 0]]
  /\ DirFrame

\* User.create; a second row with the same email is refused
RegUser(s) ==
  /\ dir.hs[s].pc = "regUser"
  /\ dir' = IF dir.hs[s].user \in dir.users
            THEN [dir EXCEPT !.hs[s] = DirIdle,
                             !.reply = DirReply("register", dir.hs[s].user, 0, 500)]
            ELSE [dir EXCEPT !.users = @ \cup {dir.hs[s].user}, !.hs[s].pc = "regSub"]
  /\ DirFrame

\* SubAccount.create, then the 201; an error goes to the catch
RegSub(s, ok) ==
  /\ dir.hs[s].pc = "regSub"
  /\ ok \/ DirFault
  /\ dir' = IF ok
            THEN [dir EXCEPT !.subs = @ \cup {[id |-> NewSubId, user |-> dir.hs[s].user]},
                             !.hs[s] = DirIdle,
                             !.reply = DirReply("register", dir.hs[s].user, 0, 201)]
            ELSE [dir EXCEPT !.faults = @ + 1, !.hs[s] = DirIdle,
                             !.reply = DirReply("register", dir.hs[s].user, 0, 500)]
  /\ DirFrame

\* POST /establishments: SubAccount.findOneByUserId
EstStart(s, u) ==
  /\ DirStart(s) /\ u \in dir.users
  /\ \/ /\ SubsOf(u) # {}
        /\ \E r \in SubsOf(u) :
             dir' = [dir EXCEPT !.ops = @ + 1, !.reply = NoDirReply,
                                !.hs[s] = [pc |-> "estCreate", user |-> u, sub |-> r.id]]
     \/ /\ SubsOf(u) = {}
        /\ dir' = [dir EXCEPT !.ops = @ + 1, !.reply = NoDirReply,
                              !.hs[s] = [pc |-> "estSub", user |-> u, sub |-> 0]]
  /\ DirFrame

\* if (!subAccount) subAccount = await SubAccount.create(...)
EstSub(s, ok) ==
  /\ dir.hs[s].pc = "estSub"
  /\ ok \/ DirFault
  /\ dir' = IF ok
            THEN [dir EXCEPT !.subs = @ \cup {[id |-> NewSubId, user |-> dir.hs[s].user]},
                             !.hs[s].pc = "estCreate", !.hs[s].sub = NewSubId]
            ELSE [dir EXCEPT !.faults = @ + 1, !.hs[s] = DirIdle,
                             !.reply = DirReply("create", dir.hs[s].user, 0, 500)]
  /\ DirFrame

\* Establishment.create({userId, subAccountId, ...}): the insert reads
\* establishmentData.user_id and establishmentData.sub_account_id, which the
\* route does not pass, so both columns are null; the store may refuse.
EstCreate(s, ok) ==
  /\ dir.hs[s].pc = "estCreate"
  /\ dir' = IF ok
            THEN [dir EXCEPT !.ests = @ \cup {[id |-> NewEstId, creator |-> dir.hs[s].user,
                                               user |-> 0, sub |-> 0]},
                             !.hs[s] = DirIdle,
                             !.reply = DirReply("create", dir.hs[s].user, NewEstId, 201)]
            ELSE [dir EXCEPT !.hs[s] = DirIdle,
                             !.reply = DirReply("create", dir.hs[s].user, 0, 500)]
  /\ DirFrame

EstOps == {"get", "update", "toggle", "arduino"}
EstIds == 1..2

\* GET, PUT, PATCH toggle, PATCH arduino on /:establishmentId:
\* findByEstablishmentId (.single() throws when no row matches), then the
\* test establishment.userId !== user.id on an object that has no userId.
EstAccess(op, u, e) ==
  /\ u \in dir.users
  /\ dir' = [dir EXCEPT !.reply =
               IF \E r \in dir.ests : r.id = e
               THEN DirReply(op, u, e, 404)
               ELSE DirReply(op, u, e, 500)]
  /\ DirFrame

\* GET /establishments: Establishment.findByUserId
EstList(u) ==
  /\ u \in dir.users
  /\ dir' = [dir EXCEPT !.reply =
               [DirReply("list", u, 0, 200) EXCEPT
                  !.listed = {r.id : r \in {q \in dir.ests : q.user = u}}]]
  /\ DirFrame

\* POST /process-troco for an establishment id: findByEstablishmentId, then
\* SubAccount.findById(establishment.sub_account_id), which throws on null
EstDevicePayout(e) ==
  /\ dir' = [dir EXCEPT !.reply =
               IF \E r \in dir.ests : r.id = e /\ r.sub # 0
               THEN DirReply("device", 0, e, 200)
               ELSE DirReply("device", 0, e, 500)]
  /\ DirFrame

InitDir ==
  /\ backend = "supabase"
  /\ sa = NewSubAccount(SupaDailyDefault)
  /\ txs = [t \in TxIds |-> NoTx]
  /\ h = [s \in Slots |-> Idle]
  /\ today = 0 /\ faults = 0 /\ ncredits = 0 /\ nsettings = 0 /\ credited = 0
  /\ debited = [t \in TxIds |-> 0]
  /\ gw = [t \in TxIds |-> 0]
  /\ resp = NoResp
  /\ ops = 0
  /\ efiSvc = NewEfiBankService /\ auth = NoAuth /\ fn = NoFn
  /\ dir = NoDir
  /\ fnIn = NoIn /\ fnOut = NoOut

NextDir ==
  \/ \E s \in Slots, u \in Users : RegisterStart(s, u)
  \/ \E s \in Slots : RegUser(s)
  \/ \E s \in Slots, ok \in BOOLEAN : RegSub(s, ok)
  \/ \E s \in Slots, u \in Users : EstStart(s, u)
  \/ \E s \in Slots, ok \in BOOLEAN : EstSub(s, ok)
  \/ \E s \in Slots, ok \in BOOLEAN : EstCreate(s, ok)
  \/ \E op \in EstOps, u \in Users, e \in EstIds : EstAccess(op, u, e)
  \/ \E u \in Users : EstList(u)
  \/ \E e \in EstIds : EstDevicePayout(e)

SpecDir == InitDir /\ [][NextDir]_vars

\* C34: every registered user with no registration or establishment request
\* in progress owns exactly one SubAccount.
C34_OneSubAccountPerUser ==
  \A u \in dir.users : ~DirBusy(u) => Cardinality(SubsOf(u)) = 1

\* C39: an establishment is bound to the user who created it and to one of
\* that user's SubAccounts, and the creator's requests on it are not
\* answered not found.
C39_EstablishmentBoundToCreator ==
  /\ \A r \in dir.ests :
       /\ r.user = r.creator
       /\ \E q \in SubsOf(r.creator) : q.id = r.sub
  /\ \A r \in dir.ests :
       (dir.reply.op \in EstOps /\ dir.reply.est = r.id /\ dir.reply.user = r.creator)
         => dir.reply.code # 404

\* C35: while at most one handler has ever got past its first read (so no
\* two handlers ran concurrently on a transaction) and none is in flight, a
\* stored transaction carries a gateway id only if its status is completed.
C35_GatewayIdOnlyWhenCompleted ==
  (ops <= 1 /\ Quiet)
    => \A t \in TxIds : txs[t].efi # 0 => txs[t].status = "completed"

\* C38: in the device route, once the transaction of a handler is stored as
\* completed, no later step of that handler changes its status, also when
\* the update of the device's last-seen data fails.
C38_DeviceCompletedStays ==
  [][\A s \in Slots :
       (h[s].kind = "device" /\ h'[s] # h[s] /\ txs[h[s].tx].status = "completed")
         => txs'[h[s].tx].status = "completed"]_vars

(***************************************************************************)
(* GET /status, DELETE /cancel and POST /retry issued by any user.  Every  *)
(* transaction of the model belongs to the user who owns the SubAccount;   *)
(* the routes look the transaction up by its id and the caller's id.       *)
(***************************************************************************)
TxOwner(t) == 1

FindTx_AnyUser(t, u) == txs[t]
\* PixTransaction.findOne({ _id: transactionId, userId: user._id })
FindTx(t, u) == IF TxOwner(t) = u THEN txs[t] ELSE NoTx

NotFound(s, op, t) ==
  /\ backend = "mongo" /\ Free(s)
  /\ Reject(s, Reply(op, t, 404, "NOT_FOUND", "none", FALSE))
  /\ UNCHANGED <<backend, sa, txs, today, faults, ncredits, nsettings, credited,
                 debited, gw, efiSvc, auth, fn, dir, fnIn, fnOut>>

StatusAs(s, t, u) ==
  IF FindTx(t, u).status = "none" THEN NotFound(s, "status", t) ELSE StatusStart(s, t)
CancelAs(s, t, u) ==
  IF FindTx(t, u).status = "none" THEN NotFound(s, "cancel", t) ELSE CancelStart(s, t)
RetryAs(s, t, u) ==
  IF FindTx(t, u).status = "none" THEN NotFound(s, "retry", t) ELSE RetryStart(s, t)

NextUsers ==
  \/ \E s \in Slots, t \in TxIds, u \in Users : StatusAs(s, t, u)
  \/ \E s \in Slots, t \in TxIds, u \in Users : CancelAs(s, t, u)
  \/ \E s \in Slots, t \in TxIds, u \in Users : RetryAs(s, t, u)
  \/ \E s \in Slots, st \in GatewayStatuses : CheckStatus(s, st)
  \/ \E s \in Slots : StatusMark(s)
  \/ \E s \in Slots, ok \in BOOLEAN : CancelPix(s, ok)
  \/ \E s \in Slots : CancelMark(s)
  \/ \E s \in Slots : CancelAgain(s)

SpecUsers == InitRace /\ [][NextUsers]_vars

\* C36: getStatus, cancel and retry issued by a user for a transaction of
\* another user answer not found, start no handler (so no gateway call is
\* made) and leave the transaction and the SubAccount unchanged.
C36_ForeignCallsChangeNothing ==
  [][\A s \in Slots, t \in TxIds, u \in Users :
       (u # TxOwner(t) /\ txs[t].status # "none"
          /\ (StatusAs(s, t, u) \/ CancelAs(s, t, u) \/ RetryAs(s, t, u)))
         => /\ resp'.code = 404
            /\ h' = h /\ txs' = txs /\ sa' = sa /\ gw' = gw /\ debited' = debited]_vars

\* Another user's cancel of a processing transaction has been answered.
C36_Witness ==
  /\ resp.op = "cancel" /\ resp.code = 404
  /\ txs[resp.tx].status = "processing" /\ txs[resp.tx].efi # 0
  /\ Quiet

====
